---- MODULE Spec2Model ----
(***************************************************************************)
(* Model of the Svelte module loader                                       *)
(* (packages/language-server/src/plugins/typescript/module-loader.ts) and  *)
(* of the string helpers of utils.ts it relies on.                         *)
(*                                                                         *)
(* Strings are sequences of one-character strings, so that split,          *)
(* includes, endsWith and case normalisation are computed as the code      *)
(* computes them.  Objects the code compares by identity (resolved module  *)
(* records, host result objects, Set objects) carry an allocation id.      *)
(***************************************************************************)
EXTENDS Integers, Sequences, FiniteSets, TLC

(***************************************************************************)
(* Bounds                                                                  *)
(***************************************************************************)
\* number of objects the host / the loader may allocate in one behaviour
MaxObjs == 2
\* longest moduleNames array passed to resolveModuleNames
MaxBatch == 2
\* number of type reference results the host may allocate
MaxTypeRefs == 1

(***************************************************************************)
(* String primitives                                                       *)
(***************************************************************************)
Min(S) == CHOOSE x \in S : \A y \in S : x <= y

UpperChars == <<"A","B","C","D","E","F","G","H","I","J","K","L","M",
                "N","O","P","Q","R","S","T","U","V","W","X","Y","Z">>

LowerChars == <<"a","b","c","d","e","f","g","h","i","j","k","l","m",
                "n","o","p","q","r","s","t","u","v","w","x","y","z">>

\* String.prototype.toLowerCase, character by character
LowerCaseOf ==
  [c \in {UpperChars[i] : i \in 1..Len(UpperChars)} |->
     LowerChars[CHOOSE i \in 1..Len(UpperChars) : UpperChars[i] = c]]

toLowerCase(c) == IF c \in DOMAIN LowerCaseOf THEN LowerCaseOf[c] ELSE c

\* every run of characters outside [a-z0-9\\/:\-_. ] is lower-cased
toFileNameLowerCase(x) == [i \in 1..Len(x) |-> toLowerCase(x[i])]

identity(x) == x

\* String.prototype.endsWith
endsWith(s, t) ==
  /\ Len(t) <= Len(s)
  /\ SubSeq(s, Len(s) - Len(t) + 1, Len(s)) = t

\* String.prototype.includes
includes(s, t) ==
  \E i \in 0..(Len(s) - Len(t)) : SubSeq(s, i + 1, i + Len(t)) = t

\* String.prototype.split with a non-empty separator
RECURSIVE split(_, _)
split(s, sep) ==
  LET idxs == {i \in 1..(Len(s) - Len(sep) + 1) : SubSeq(s, i, i + Len(sep) - 1) = sep}
  IN IF idxs = {}
     THEN <<s>>
     ELSE LET i == Min(idxs)
          IN <<SubSeq(s, 1, i - 1)>> \o split(SubSeq(s, i + Len(sep), Len(s)), sep)

\* Array.prototype.shift() || ''
shift(parts) == IF Len(parts) = 0 THEN <<>> ELSE parts[1]

\* Array.prototype.pop() || ''
pop(parts) == IF Len(parts) = 0 THEN <<>> ELSE parts[Len(parts)]

\* path.replace(/\\/g, '/')
replaceBackslashes(path) == [i \in 1..Len(path) |-> IF path[i] = "\\" THEN "/" ELSE path[i]]

getLastPartOfPath(path) == pop(split(replaceBackslashes(path), <<"/">>))

(***************************************************************************)
(* String constants of the program and the strings used as inputs          *)
(***************************************************************************)
CACHE_KEY_SEPARATOR == <<":", ":", ":">>

SvelteEnding == <<".","s","v","e","l","t","e">>
VirtualEnding == <<".","d",".","s","v","e","l","t","e",".","t","s">>
\* 'd.svelte.ts'.length
VirtualSuffixLength == 11

\* containing files
FileA == <<"/","p","/","a",".","t","s">>
FileB == <<"/","p","/","B",".","t","s">>
\* specifiers
SpecFoo == <<".","/","F","o","o">>
SpecBar == <<".","/","B","a","r">>
\* paths
PathFoo == <<"/","p","/","F","o","o",".","t","s">>
PathFooLower == <<"/","p","/","f","o","o",".","t","s">>
PathFooVirtual == <<"/","p","/","F","o","o",".","d",".","s","v","e","l","t","e",".","t","s">>
PathFooSvelte == <<"/","p","/","F","o","o",".","s","v","e","l","t","e">>
PathFooIndex == <<"/","p","/","F","o","o","/","i","n","d","e","x",".","t","s">>

(***************************************************************************)
(* Virtual path classifier (plugins/typescript/utils.ts)                   *)
(***************************************************************************)
isSvelteFilePath(filePath) == endsWith(filePath, SvelteEnding)

isVirtualSvelteFilePath(filePath) == endsWith(filePath, VirtualEnding)

toRealSvelteFilePath(filePath) ==
  SubSeq(filePath, 1, Len(filePath) - VirtualSuffixLength) \o Tail(SvelteEnding)

ensureRealSvelteFilePath(filePath) ==
  IF isVirtualSvelteFilePath(filePath) THEN toRealSvelteFilePath(filePath) ELSE filePath

ScriptKinds == {"JS", "JSX", "TS", "TSX", "JSON", "undefined"}

getExtensionFromScriptKind(kind) ==
  CASE kind = "JSX" -> ".jsx"
    [] kind = "TS" -> ".ts"
    [] kind = "TSX" -> ".tsx"
    [] kind = "JSON" -> ".json"
    [] OTHER -> ".js"

(***************************************************************************)
(* State                                                                   *)
(***************************************************************************)
VARIABLES
  project,                     \* the project the session runs in: the inputs it can see
  useCaseSensitiveFileNames,   \* ts.sys / tsSystem .useCaseSensitiveFileNames
  cache,                       \* ModuleResolutionCache.cache (canonical key -> value)
  pendingInvalidations,        \* ModuleResolutionCache.pendingInvalidations
  objs,                        \* heap of ResolvedModuleWithFailedLookupLocations objects
  fileSets,                    \* heap of the Set<string> objects held in `files`
  resolutionWithFailedLookup,  \* set of tracked objects (by identity)
  failedLocationInvalidated,
  pendingFailedLocationCheck,
  tsModuleCache,               \* the host's own memo: specifier -> result object
  typeReferenceCache,          \* key -> result object identity
  nextTypeRef,                 \* next identity of a type reference result
  fileExistsCache,             \* svelteSys existence cache
  disk                         \* files that exist

\* utils.ts, debounceSameArg and debounceThrottle: the closure of the function the
\* session created and the timers of the event loop.  Moments are measured from the
\* present, Date.now() = 0: a timer is due in `due` milliseconds, a moment of the
\* past is negative, and a moment more than `miliseconds` ago is kept as -miliseconds.
VARIABLES
  predicate,                   \* the shouldCancelPrevious the session passes
  timers,                      \* pending setTimeout callbacks, oldest first
  timeout,                     \* let timeout: the handle of the latest setTimeout (0: none)
  prevArg,                     \* let prevArg
  lastInvocation,              \* let lastInvocation
  lastCall,                    \* the moment of the most recent call of the returned function
  invocations,                 \* the invocations of fn since that call
  burst                        \* the calls of the returned function since fn last ran

loaderVars ==
  <<project, useCaseSensitiveFileNames, cache, pendingInvalidations, objs, fileSets,
    resolutionWithFailedLookup, failedLocationInvalidated, pendingFailedLocationCheck,
    tsModuleCache, typeReferenceCache, nextTypeRef, fileExistsCache, disk>>

timerVars ==
  <<predicate, timers, timeout, prevArg, lastInvocation, lastCall, invocations, burst>>

vars ==
  <<project, useCaseSensitiveFileNames, cache, pendingInvalidations, objs, fileSets,
    resolutionWithFailedLookup, failedLocationInvalidated, pendingFailedLocationCheck,
    tsModuleCache, typeReferenceCache, nextTypeRef, fileExistsCache, disk,
    predicate, timers, timeout, prevArg, lastInvocation, lastCall, invocations, burst>>

\* the delay the session passes as `miliseconds`
miliseconds == 5

\* Date.now()
Now == 0

\* the value `undefined` where an argument of fn is expected
undefinedArg == <<>>

\* a session that created no debounced function
NoDebouncedFunction ==
  /\ predicate = "none"
  /\ timers = <<>>
  /\ timeout = 0
  /\ prevArg = undefinedArg
  /\ lastInvocation = Now - miliseconds
  /\ lastCall = Now - miliseconds
  /\ invocations = 0
  /\ burst = 0

\* the value `undefined` where a ts.ResolvedModule is expected
undefined ==
  [id |-> 0, resolvedFileName |-> <<>>, extension |-> "", isExternalLibraryImport |-> FALSE]

\* a Map / FileMap with no entry
EmptyMap == [k \in {} |-> undefined]

(***************************************************************************)
(* utils.ts: canonical file names                                          *)
(***************************************************************************)
createGetCanonicalFileName(caseSensitive, fileName) ==
  IF caseSensitive THEN identity(fileName) ELSE toFileNameLowerCase(fileName)

getCanonicalFileName(fileName) ==
  createGetCanonicalFileName(useCaseSensitiveFileNames, fileName)

(***************************************************************************)
(* lib/documents/fileCollection.ts: FileMap and FileSet canonicalise the   *)
(* path they are given on every access                                     *)
(***************************************************************************)
FileMapHas(map, filePath) == getCanonicalFileName(filePath) \in DOMAIN map

FileMapGet(map, filePath) ==
  IF FileMapHas(map, filePath) THEN map[getCanonicalFileName(filePath)] ELSE undefined

FileMapSet(map, filePath, value) ==
  [k \in DOMAIN map \cup {getCanonicalFileName(filePath)} |->
     IF k = getCanonicalFileName(filePath) THEN value ELSE map[k]]

FileMapDeleteAll(map, keys) ==
  [k \in DOMAIN map \ {getCanonicalFileName(key) : key \in keys} |-> map[k]]

FileSetAdd(set, filePath) == set \cup {getCanonicalFileName(filePath)}

FileSetHas(set, filePath) == getCanonicalFileName(filePath) \in set

(***************************************************************************)
(* class ModuleResolutionCache                                             *)
(***************************************************************************)
getKey(moduleName, containingFile) ==
  containingFile \o CACHE_KEY_SEPARATOR \o ensureRealSvelteFilePath(moduleName)

get(c, moduleName, containingFile) == FileMapGet(c, getKey(moduleName, containingFile))

\* has() looking the key up as it is written, without the case normalisation
hasAsWritten(c, moduleName, containingFile) == getKey(moduleName, containingFile) \in DOMAIN c

has(c, moduleName, containingFile) == FileMapHas(c, getKey(moduleName, containingFile))

\* set() that stores resolved modules only
setResolvedOnly(c, moduleName, containingFile, resolvedModule) ==
  IF resolvedModule = undefined
  THEN c
  ELSE FileMapSet(c, getKey(moduleName, containingFile), resolvedModule)

set(c, moduleName, containingFile, resolvedModule) ==
  FileMapSet(c, getKey(moduleName, containingFile), resolvedModule)

\* the callback comparing the paths as they are written
deleteMatchesAsWritten(c, resolvedModuleName) ==
  {key \in DOMAIN c :
     /\ c[key] # undefined
     /\ c[key].resolvedFileName = resolvedModuleName}

\* the keys the forEach callback of delete() removes
deleteMatches(c, resolvedModuleName) ==
  {key \in DOMAIN c :
     /\ c[key] # undefined
     /\ getCanonicalFileName(c[key].resolvedFileName)
          = getCanonicalFileName(resolvedModuleName)}

\* delete() that removes the entries and forgets their containing files
deleteUnrecorded(c, pending, resolvedModuleName) ==
  [cache |-> FileMapDeleteAll(c, deleteMatches(c, resolvedModuleName)),
   pendingInvalidations |-> pending]

\* delete() that keeps the keys and stores undefined under them
deleteLeavingUnresolved(c, pending, resolvedModuleName) ==
  LET hit == deleteMatches(c, resolvedModuleName)
  IN [cache |-> [key \in DOMAIN c |-> IF key \in hit THEN undefined ELSE c[key]],
      pendingInvalidations |->
        pending \cup {getCanonicalFileName(shift(split(key, CACHE_KEY_SEPARATOR))) : key \in hit}]

delete(c, pending, resolvedModuleName) ==
  LET hit == deleteMatches(c, resolvedModuleName)
  IN [cache |-> FileMapDeleteAll(c, hit),
      pendingInvalidations |->
        pending \cup {getCanonicalFileName(shift(split(key, CACHE_KEY_SEPARATOR))) : key \in hit}]

\* const [containingFile, moduleName = ''] = key.split(CACHE_KEY_SEPARATOR)
keyContainingFile(key) == split(key, CACHE_KEY_SEPARATOR)[1]

keyModuleName(key) ==
  LET parts == split(key, CACHE_KEY_SEPARATOR)
  IN IF Len(parts) >= 2 THEN parts[2] ELSE <<>>

\* the last part of the path with its ending: without .split('.').shift()
fileNameWithEnding(path) == getLastPartOfPath(getCanonicalFileName(path))

fileNameWithoutEnding(path) ==
  shift(split(getLastPartOfPath(getCanonicalFileName(path)), <<".">>))

\* the callback without its test of the value: every key with the stem is removed
stemMatches(c, path) ==
  {key \in DOMAIN c : includes(keyModuleName(key), fileNameWithoutEnding(path))}

\* the keys the forEach callback of deleteUnresolvedResolutionsFromCache() removes
unresolvedMatches(c, path) ==
  {key \in DOMAIN c :
     /\ c[key] = undefined
     /\ includes(keyModuleName(key), fileNameWithoutEnding(path))}

\* the method removing the entries without recording their containing files
deleteUnresolvedUnrecorded(c, pending, path) ==
  [cache |-> FileMapDeleteAll(c, unresolvedMatches(c, path)),
   pendingInvalidations |-> pending]

ModuleResolutionCache_deleteUnresolvedResolutionsFromCache(c, pending, path) ==
  LET hit == unresolvedMatches(c, path)
  IN [cache |-> FileMapDeleteAll(c, hit),
      pendingInvalidations |->
        pending \cup {getCanonicalFileName(keyContainingFile(key)) : key \in hit}]

oneOfResolvedModuleChanged(pending, path) == FileSetHas(pending, path)

(***************************************************************************)
(* svelte-sys.ts: existence of the real file behind a virtual path,        *)
(* answered from fileExistsCache when it holds the path                    *)
(***************************************************************************)
svelteFileExists(fec, path) ==
  IF isVirtualSvelteFilePath(path)
  THEN LET sveltePath == toRealSvelteFilePath(path)
           sveltePathExists ==
             IF sveltePath \in DOMAIN fec THEN fec[sveltePath] ELSE sveltePath \in disk
       IN [fileExistsCache |->
             [p \in DOMAIN fec \cup {sveltePath} |->
                IF p = sveltePath THEN sveltePathExists ELSE fec[p]],
           ret |-> sveltePathExists]
  ELSE [fileExistsCache |-> fec, ret |-> FALSE]

deleteFromCache(fec, path) == [p \in DOMAIN fec \ {path} |-> fec[p]]

(***************************************************************************)
(* The host resolution algorithm (tsModule.resolveModuleName): an oracle.  *)
(* It answers with a result object it memoised in tsModuleCache or with a  *)
(* new object holding any of the answers of the project.                    *)
(***************************************************************************)
NoFile == <<>>

\* an answer of the host algorithm
Unresolved(failedLookupLocations) ==
  [resolvedFileName |-> NoFile, isExternalLibraryImport |-> FALSE,
   failedLookupLocations |-> failedLookupLocations]

Resolved(resolvedFileName, isExternalLibraryImport, failedLookupLocations) ==
  [resolvedFileName |-> resolvedFileName,
   isExternalLibraryImport |-> isExternalLibraryImport,
   failedLookupLocations |-> failedLookupLocations]

\* script kinds the snapshot provider answers with
SnapshotKinds == {"TS", "undefined"}

\* the object the host builds for an answer; its resolvedModule has identity id
hostObject(id, answer) ==
  [resolvedModule |->
     IF answer.resolvedFileName = NoFile
     THEN undefined
     ELSE [id |-> id, resolvedFileName |-> answer.resolvedFileName, extension |-> ".ts",
           isExternalLibraryImport |-> answer.isExternalLibraryImport],
   failedLookupLocations |-> answer.failedLookupLocations,
   files |-> 0]

\* The loader's own state: what the closures of createSvelteModuleLoader share.
loaderState ==
  [cache |-> cache, pendingInvalidations |-> pendingInvalidations,
   objs |-> objs, fileSets |-> fileSets,
   resolutionWithFailedLookup |-> resolutionWithFailedLookup,
   failedLocationInvalidated |-> failedLocationInvalidated,
   pendingFailedLocationCheck |-> pendingFailedLocationCheck,
   tsModuleCache |-> tsModuleCache, typeReferenceCache |-> typeReferenceCache,
   fileExistsCache |-> fileExistsCache]

\* allocate a new object: its identity is its index in the heap
allocate(st, obj) ==
  [st EXCEPT !.objs = Append(@, obj), !.fileSets = Append(@, {})]

tsResolveModuleName(st, name) ==
  (IF name \in DOMAIN st.tsModuleCache
   THEN {[st |-> st, id |-> st.tsModuleCache[name]]}
   ELSE {})
  \cup
  (IF Len(st.objs) < MaxObjs
   THEN {[st |-> [allocate(st, hostObject(Len(st.objs) + 1, answer))
                    EXCEPT !.tsModuleCache =
                      [n \in DOMAIN @ \cup {name} |->
                         IF n = name THEN Len(st.objs) + 1 ELSE @[n]]],
          id |-> Len(st.objs) + 1] : answer \in project.answers}
   ELSE {})

(***************************************************************************)
(* createSvelteModuleLoader                                                *)
(***************************************************************************)
\* the record without the remapped name: the host's virtual path stays
resolvedSvelteModuleUnderHostName(id, resolvedModule, resolvedFileName, scriptKind) ==
  [id |-> id,
   resolvedFileName |-> resolvedModule.resolvedFileName,
   extension |-> getExtensionFromScriptKind(scriptKind),
   isExternalLibraryImport |-> resolvedModule.isExternalLibraryImport]

\* the record without the flag of the host's record
resolvedSvelteModuleUnflagged(id, resolvedModule, resolvedFileName, scriptKind) ==
  [id |-> id,
   resolvedFileName |-> resolvedFileName,
   extension |-> getExtensionFromScriptKind(scriptKind),
   isExternalLibraryImport |-> FALSE]

\* const resolvedSvelteModule: ts.ResolvedModuleFull = {...}, a new record with
\* identity id
resolvedSvelteModule(id, resolvedModule, resolvedFileName, scriptKind) ==
  [id |-> id,
   resolvedFileName |-> resolvedFileName,
   extension |-> getExtensionFromScriptKind(scriptKind),
   isExternalLibraryImport |-> resolvedModule.isExternalLibraryImport]

\* the outcomes of resolveModuleName: the state, the object returned, the object
\* the host answered with and the script kind the snapshot gave (if asked)
resolveModuleName(st, name, containingFile) ==
  UNION {
    LET s1 == hr.st
        resolvedModuleWithFailedLookup == s1.objs[hr.id]
        resolvedModule == resolvedModuleWithFailedLookup.resolvedModule
        asIs == [st |-> s1, id |-> hr.id, host |-> hr.id, kind |-> "none"]
    IN IF resolvedModule = undefined
          \/ ~isVirtualSvelteFilePath(resolvedModule.resolvedFileName)
       THEN {asIs}
       ELSE LET exists == svelteFileExists(s1.fileExistsCache, resolvedModule.resolvedFileName)
                \* svelteSys.getRealSveltePathIfExists
                resolvedFileName ==
                  IF exists.ret
                  THEN toRealSvelteFilePath(resolvedModule.resolvedFileName)
                  ELSE resolvedModule.resolvedFileName
                s2 == [s1 EXCEPT !.fileExistsCache = exists.fileExistsCache]
            IN IF ~isSvelteFilePath(resolvedFileName)
               THEN {[asIs EXCEPT !.st = s2]}
               ELSE IF Len(s2.objs) < MaxObjs
                    THEN {[st |-> allocate(s2,
                                   [resolvedModule |->
                                      resolvedSvelteModule(Len(s2.objs) + 1, resolvedModule,
                                                           resolvedFileName, kind),
                                    failedLookupLocations |->
                                      resolvedModuleWithFailedLookup.failedLookupLocations,
                                    files |-> resolvedModuleWithFailedLookup.files]),
                           id |-> Len(s2.objs) + 1, host |-> hr.id, kind |-> kind]
                            : kind \in SnapshotKinds}
                    ELSE {}
    : hr \in tsResolveModuleName(st, name)}

\* the tracker keeping the last containing file only: files = new Set([containingFile])
cacheResolutionWithFailedLookupOfLastFile(st, id, containingFile) ==
  IF st.objs[id].failedLookupLocations = {}
  THEN st
  ELSE LET files == IF st.objs[id].files = 0 THEN id ELSE st.objs[id].files
       IN [st EXCEPT !.objs[id].files = files,
                     !.fileSets[files] = {containingFile},
                     !.resolutionWithFailedLookup = @ \cup {id}]

cacheResolutionWithFailedLookup(st, id, containingFile) ==
  IF st.objs[id].failedLookupLocations = {}
  THEN st
  ELSE LET files == IF st.objs[id].files = 0 THEN id ELSE st.objs[id].files
       IN [st EXCEPT !.objs[id].files = files,
                     !.fileSets[files] = @ \cup {containingFile},
                     !.resolutionWithFailedLookup = @ \cup {id}]

\* the callback without its cache-hit return: every specifier is resolved afresh
resolveOneAfresh(st, moduleName, containingFile) ==
  {LET s1 == cacheResolutionWithFailedLookup(r.st, r.id, containingFile)
   IN [st |-> [s1 EXCEPT !.cache =
                 set(@, moduleName, containingFile, s1.objs[r.id].resolvedModule)],
       ret |-> s1.objs[r.id].resolvedModule,
       tr |-> [hit |-> FALSE, host |-> r.host, kind |-> r.kind]]
   : r \in resolveModuleName(st, moduleName, containingFile)}

\* the callback testing get() instead of has(): a stored undefined counts as a miss
resolveOneTestingGet(st, moduleName, containingFile) ==
  IF get(st.cache, moduleName, containingFile) # undefined
  THEN {[st |-> st, ret |-> get(st.cache, moduleName, containingFile),
         tr |-> [hit |-> TRUE, host |-> 0, kind |-> "none"]]}
  ELSE resolveOneAfresh(st, moduleName, containingFile)

\* the callback of moduleNames.map
resolveOne(st, moduleName, containingFile) ==
  IF has(st.cache, moduleName, containingFile)
  THEN {[st |-> st, ret |-> get(st.cache, moduleName, containingFile),
         tr |-> [hit |-> TRUE, host |-> 0, kind |-> "none"]]}
  ELSE {LET s1 == cacheResolutionWithFailedLookup(r.st, r.id, containingFile)
        IN [st |-> [s1 EXCEPT !.cache =
                      set(@, moduleName, containingFile, s1.objs[r.id].resolvedModule)],
            ret |-> s1.objs[r.id].resolvedModule,
            tr |-> [hit |-> FALSE, host |-> r.host, kind |-> r.kind]]
        : r \in resolveModuleName(st, moduleName, containingFile)}

\* every outcome of mapping the callback over moduleNames, left to right
RECURSIVE mapResolve(_, _, _)
mapResolve(acc, moduleNames, containingFile) ==
  IF moduleNames = <<>>
  THEN acc
  ELSE mapResolve(
         UNION {{[st |-> o.st, ret |-> Append(a.ret, o.ret), tr |-> Append(a.tr, o.tr)]
                   : o \in resolveOne(a.st, Head(moduleNames), containingFile)}
                : a \in acc},
         Tail(moduleNames), containingFile)

\* the results with the cache hits moved to the front
resolveModuleNamesHitsFirst(st, moduleNames, containingFile) ==
  {LET hits == {i \in DOMAIN o.ret : o.tr[i].hit}
       position(i) == IF i \in hits
                      THEN Cardinality({j \in hits : j <= i})
                      ELSE Cardinality(hits) + Cardinality({j \in DOMAIN o.ret \ hits : j <= i})
   IN [o EXCEPT !.ret = [k \in DOMAIN o.ret |->
                           o.ret[CHOOSE i \in DOMAIN o.ret : position(i) = k]]]
   : o \in mapResolve({[st |-> st, ret |-> <<>>, tr |-> <<>>]}, moduleNames, containingFile)}

resolveModuleNames(st, moduleNames, containingFile) ==
  mapResolve({[st |-> st, ret |-> <<>>, tr |-> <<>>]}, moduleNames, containingFile)

mightHaveInvalidatedResolutions(st, path) ==
  \/ oneOfResolvedModuleChanged(st.pendingInvalidations, path)
  \/ FileSetHas(st.failedLocationInvalidated, path)

\* the hooks of the returned surface: the loader state each leaves behind
deleteFromModuleCache(st, path) ==
  LET out == delete(st.cache, st.pendingInvalidations, path)
  IN [st EXCEPT !.fileExistsCache = deleteFromCache(@, path),
                !.cache = out.cache,
                !.pendingInvalidations = out.pendingInvalidations]

deleteUnresolvedResolutionsFromCache(st, path) ==
  LET out == ModuleResolutionCache_deleteUnresolvedResolutionsFromCache(
               st.cache, st.pendingInvalidations, path)
  IN [st EXCEPT !.fileExistsCache = deleteFromCache(@, path),
                !.cache = out.cache,
                !.pendingInvalidations = out.pendingInvalidations,
                !.pendingFailedLocationCheck = FileSetAdd(@, path),
                !.tsModuleCache = EmptyMap,
                !.typeReferenceCache = EmptyMap]

\* clearPendingInvalidations() that leaves failedLocationInvalidated as it is
clearPendingInvalidationsOfCacheOnly(st) ==
  [st EXCEPT !.pendingInvalidations = {}, !.pendingFailedLocationCheck = {}]

\* clearPendingInvalidations() that empties the resolution cache as well
clearPendingInvalidationsAndCache(st) ==
  [st EXCEPT !.cache = EmptyMap,
             !.pendingInvalidations = {},
             !.failedLocationInvalidated = {},
             !.pendingFailedLocationCheck = {}]

\* clearPendingInvalidations() that leaves the paths pending a failed-location check
clearPendingInvalidationsKeepingChecks(st) ==
  [st EXCEPT !.pendingInvalidations = {}, !.failedLocationInvalidated = {}]

clearPendingInvalidations(st) ==
  [st EXCEPT !.pendingInvalidations = {},
             !.failedLocationInvalidated = {},
             !.pendingFailedLocationCheck = {}]

\* the tracked objects with a resolved module, whatever locations are pending
invalidatedResolutionsUnchecked(st) ==
  {id \in st.resolutionWithFailedLookup :
     /\ st.objs[id].resolvedModule # undefined
     /\ st.objs[id].files # 0}

\* the tracked objects the sweep acts on
invalidatedResolutions(st) ==
  {id \in st.resolutionWithFailedLookup :
     /\ st.objs[id].resolvedModule # undefined
     /\ st.objs[id].files # 0
     /\ \E location \in st.objs[id].failedLookupLocations :
          FileSetHas(st.pendingFailedLocationCheck, location)}

\* the sweep without moduleCache.delete(...): it only marks the files
sweepMarkingOnly(st, ids) ==
  [st EXCEPT !.failedLocationInvalidated =
     @ \cup UNION {{getCanonicalFileName(file) : file \in st.fileSets[st.objs[id].files]}
                     : id \in ids}]

\* moduleCache.delete(...) and failedLocationInvalidated.add(...) for every object in ids
RECURSIVE sweep(_, _)
sweep(st, ids) ==
  IF ids = {}
  THEN st
  ELSE LET id == CHOOSE i \in ids : TRUE
           out == delete(st.cache, st.pendingInvalidations,
                         st.objs[id].resolvedModule.resolvedFileName)
       IN sweep([st EXCEPT !.cache = out.cache,
                           !.pendingInvalidations = out.pendingInvalidations,
                           !.failedLocationInvalidated =
                             @ \cup {getCanonicalFileName(file)
                                       : file \in st.fileSets[st.objs[id].files]}],
                ids \ {id})

\* the sweep without pendingFailedLocationCheck.clear()
invalidateFailedLocationResolutionKeepingPending(st) ==
  sweep(st, invalidatedResolutions(st))

invalidateFailedLocationResolution(st) ==
  [sweep(st, invalidatedResolutions(st)) EXCEPT !.pendingFailedLocationCheck = {}]

(***************************************************************************)
(* Type reference directives                                               *)
(***************************************************************************)
ModeUndefined == <<"u","n","d","e","f","i","n","e","d">>
ModeESNext == <<"9","9">>
Modes == {ModeUndefined, ModeESNext}

\* a directive is a string or a ts.FileReference with a fileName
TypeDirectives ==
  {[isString |-> TRUE, text |-> <<"n","o","d","e">>],
   [isString |-> FALSE, text |-> <<"N","o","d","e">>]}

getTypeReferenceResolutionName(entry) ==
  IF ~entry.isString THEN toFileNameLowerCase(entry.text) ELSE entry.text

typeReferenceKey(entry, mode) == getTypeReferenceResolutionName(entry) \o <<"|">> \o mode

\* the object ts.resolveTypeReferenceDirective builds for a request from
\* containingFile; id is its identity
typeReferenceResult(id, containingFile) == [id |-> id, containingFile |-> containingFile]

\* the callback without its look into the table: every directive is resolved afresh
\* and its result replaces the one in the table
mapTypeReferencesAfresh(acc, typeDirectiveNames, containingFile, mode) ==
  LET keyAt(i) == typeReferenceKey(typeDirectiveNames[i], mode)
      resultAt(i) == typeReferenceResult(acc.next + i - 1, containingFile)
      last(k) == CHOOSE i \in DOMAIN typeDirectiveNames :
                   /\ keyAt(i) = k
                   /\ \A j \in DOMAIN typeDirectiveNames : keyAt(j) = k => j <= i
  IN [cache |-> [k \in DOMAIN acc.cache \cup {keyAt(i) : i \in DOMAIN typeDirectiveNames} |->
                   IF \E i \in DOMAIN typeDirectiveNames : keyAt(i) = k
                   THEN resultAt(last(k))
                   ELSE acc.cache[k]],
      next |-> acc.next + Len(typeDirectiveNames),
      ret |-> [i \in DOMAIN typeDirectiveNames |-> resultAt(i)]]

\* typeDirectiveNames.map(...): the cache, the next result identity and the results
RECURSIVE mapTypeReferences(_, _, _, _)
mapTypeReferences(acc, typeDirectiveNames, containingFile, mode) ==
  IF typeDirectiveNames = <<>>
  THEN acc
  ELSE LET key == typeReferenceKey(Head(typeDirectiveNames), mode)
       IN mapTypeReferences(
            IF key \in DOMAIN acc.cache
            THEN [acc EXCEPT !.ret = Append(@, acc.cache[key])]
            ELSE LET result == typeReferenceResult(acc.next, containingFile)
                 IN [cache |-> [k \in DOMAIN acc.cache \cup {key} |->
                                  IF k = key THEN result ELSE acc.cache[k]],
                     next |-> acc.next + 1,
                     ret |-> Append(acc.ret, result)],
            Tail(typeDirectiveNames), containingFile, mode)

resolveTypeReferenceDirectiveReferences(st, next, typeDirectiveNames, containingFile, mode) ==
  mapTypeReferences([cache |-> st.typeReferenceCache, next |-> next, ret |-> <<>>],
                    typeDirectiveNames, containingFile, mode)

(***************************************************************************)
(* Projects.  A behaviour is one session in one project; the project fixes *)
(* the files that import, the specifiers they import, what the host        *)
(* algorithm can answer, and the paths the file watcher reports.           *)
(***************************************************************************)
\* one file importing two modules, on either kind of file system
ProjectSpecifiers ==
  [containingFiles |-> {FileB},
   specifiers |-> {SpecFoo, SpecBar},
   answers |-> {Unresolved({PathFoo}), Resolved(PathFoo, FALSE, {}),
                Resolved(PathFooIndex, FALSE, {PathFoo})},
   createdPaths |-> {PathFoo, PathFooIndex},
   deletedPaths |-> {PathFooLower},
   typeDirectives |-> {},
   typeReferenceFiles |-> {},
   diskPaths |-> {},
   caseSensitive |-> BOOLEAN]

\* two files importing the same module, found with or without a failed lookup, on a
\* case-insensitive file system
ProjectFiles ==
  [containingFiles |-> {FileA, FileB},
   specifiers |-> {SpecFoo},
   answers |-> {Resolved(PathFooIndex, FALSE, {PathFoo}), Resolved(PathFooIndex, FALSE, {})},
   createdPaths |-> {PathFoo},
   deletedPaths |-> {PathFooIndex},
   typeDirectives |-> {},
   typeReferenceFiles |-> {},
   diskPaths |-> {},
   caseSensitive |-> {FALSE}]

\* a Svelte component behind a virtual path
ProjectSvelte ==
  [containingFiles |-> {FileA},
   specifiers |-> {SpecFoo},
   answers |-> {Resolved(PathFooVirtual, FALSE, {}), Resolved(PathFooVirtual, TRUE, {PathFoo}),
                Resolved(PathFoo, FALSE, {})},
   createdPaths |-> {PathFoo, PathFooSvelte},
   deletedPaths |-> {PathFooSvelte},
   typeDirectives |-> {},
   typeReferenceFiles |-> {},
   diskPaths |-> {PathFooSvelte},
   caseSensitive |-> {TRUE}]

\* a directory import, and type reference directives in two files
ProjectTypes ==
  [containingFiles |-> {FileA},
   specifiers |-> {SpecFoo},
   answers |-> {Unresolved({PathFooIndex}), Resolved(PathFoo, FALSE, {})},
   createdPaths |-> {PathFooIndex},
   deletedPaths |-> {PathFoo},
   typeDirectives |-> TypeDirectives,
   typeReferenceFiles |-> {FileA, FileB},
   diskPaths |-> {},
   caseSensitive |-> {FALSE}]

Projects == {ProjectSpecifiers, ProjectFiles, ProjectSvelte, ProjectTypes}

(***************************************************************************)
(* Initial state: a loader just created                                    *)
(***************************************************************************)
Init ==
  /\ project \in Projects
  /\ useCaseSensitiveFileNames \in project.caseSensitive
  /\ cache = EmptyMap
  /\ pendingInvalidations = {}
  /\ objs = <<>>
  /\ fileSets = <<>>
  /\ resolutionWithFailedLookup = {}
  /\ failedLocationInvalidated = {}
  /\ pendingFailedLocationCheck = {}
  /\ tsModuleCache = EmptyMap
  /\ typeReferenceCache = EmptyMap
  /\ nextTypeRef = 1
  /\ fileExistsCache = EmptyMap
  /\ disk \in SUBSET project.diskPaths
  /\ NoDebouncedFunction

(***************************************************************************)
(* The public surface: one action per call                                 *)
(***************************************************************************)
Batches(S) == UNION {[1..n -> S] : n \in 1..MaxBatch}

\* the loader state after a call
Becomes(st) ==
  /\ cache' = st.cache
  /\ pendingInvalidations' = st.pendingInvalidations
  /\ objs' = st.objs
  /\ fileSets' = st.fileSets
  /\ resolutionWithFailedLookup' = st.resolutionWithFailedLookup
  /\ failedLocationInvalidated' = st.failedLocationInvalidated
  /\ pendingFailedLocationCheck' = st.pendingFailedLocationCheck
  /\ tsModuleCache' = st.tsModuleCache
  /\ typeReferenceCache' = st.typeReferenceCache
  /\ fileExistsCache' = st.fileExistsCache
  /\ UNCHANGED timerVars

ResolveModuleNames ==
  \E containingFile \in project.containingFiles, moduleNames \in Batches(project.specifiers) :
    \E out \in resolveModuleNames(loaderState, moduleNames, containingFile) :
      /\ Becomes(out.st)
      /\ UNCHANGED <<project, useCaseSensitiveFileNames, nextTypeRef, disk>>

ResolveTypeReferenceDirectiveReferences ==
  \E typeDirectiveNames \in Batches(project.typeDirectives),
     containingFile \in project.typeReferenceFiles, mode \in Modes :
    LET out == resolveTypeReferenceDirectiveReferences(
                 loaderState, nextTypeRef, typeDirectiveNames, containingFile, mode)
    IN /\ out.next <= MaxTypeRefs + 1
       /\ Becomes([loaderState EXCEPT !.typeReferenceCache = out.cache])
       /\ nextTypeRef' = out.next
       /\ UNCHANGED <<project, useCaseSensitiveFileNames, disk>>

\* The session calls deleteFromModuleCache when a file was deleted or changed;
\* a deleted file is gone from the disk by then.
DeleteFromModuleCache ==
  \E path \in project.deletedPaths :
    /\ Becomes(deleteFromModuleCache(loaderState, path))
    /\ disk' \in {disk, disk \ {path}}
    /\ UNCHANGED <<project, useCaseSensitiveFileNames, nextTypeRef>>

\* The session calls deleteUnresolvedResolutionsFromCache when a file was created;
\* the file is on the disk by then.
DeleteUnresolvedResolutionsFromCache ==
  \E path \in project.createdPaths :
    /\ Becomes(deleteUnresolvedResolutionsFromCache(loaderState, path))
    /\ disk' \in {disk, disk \cup ({path} \cap project.diskPaths)}
    /\ UNCHANGED <<project, useCaseSensitiveFileNames, nextTypeRef>>

InvalidateFailedLocationResolution ==
  /\ Becomes(invalidateFailedLocationResolution(loaderState))
  /\ UNCHANGED <<project, useCaseSensitiveFileNames, nextTypeRef, disk>>

\* a query: it answers mightHaveInvalidatedResolutions(path) and changes nothing
MightHaveInvalidatedResolutions ==
  \E path \in project.containingFiles :
    /\ mightHaveInvalidatedResolutions(loaderState, path) \in BOOLEAN
    /\ UNCHANGED vars

ClearPendingInvalidations ==
  /\ Becomes(clearPendingInvalidations(loaderState))
  /\ UNCHANGED <<project, useCaseSensitiveFileNames, nextTypeRef, disk>>

Next ==
  \/ ResolveModuleNames
  \/ ResolveTypeReferenceDirectiveReferences
  \/ DeleteFromModuleCache
  \/ DeleteUnresolvedResolutionsFromCache
  \/ InvalidateFailedLocationResolution
  \/ MightHaveInvalidatedResolutions
  \/ ClearPendingInvalidations

Spec == Init /\ [][Next]_vars

(***************************************************************************)
(* Properties                                                              *)
(***************************************************************************)
\* every call resolveModuleNames(moduleNames, containingFile) the session can make
Calls == {[containingFile |-> f, moduleNames |-> names]
            : f \in project.containingFiles, names \in Batches(project.specifiers)}

\* the outcomes of a call made in the current state
Outcomes(call) == resolveModuleNames(loaderState, call.moduleNames, call.containingFile)

\* The outcomes of resolving one specifier from f in the current state.  A call
\* resolves each element of its batch this way, from the state the elements before it
\* left, which is the state the call with the shorter batch leaves.
Resolutions(s, f) == resolveOne(loaderState, s, f)

\* a step of a call that is no invalidation call
NoInvalidationCall ==
  \/ ResolveModuleNames
  \/ ResolveTypeReferenceDirectiveReferences
  \/ MightHaveInvalidatedResolutions
  \/ ClearPendingInvalidations

\* a call returns, for a specifier the cache holds, the stored record itself and
\* leaves it stored
HitReturnsStored ==
  \A call \in Calls : \A out \in Outcomes(call) : \A i \in DOMAIN call.moduleNames :
    has(cache, call.moduleNames[i], call.containingFile) =>
      /\ out.ret[i] = get(cache, call.moduleNames[i], call.containingFile)
      /\ get(out.st.cache, call.moduleNames[i], call.containingFile) = out.ret[i]

\* a call that is no invalidation call keeps every stored record
StoredIsKept ==
  \/ \A key \in DOMAIN cache : key \in DOMAIN cache' /\ cache'[key] = cache[key]
  \/ ~NoInvalidationCall

\* C1: Idempotent hit.  Between two resolveModuleNames calls with no
\* deleteFromModuleCache, deleteUnresolvedResolutionsFromCache or
\* invalidateFailedLocationResolution call in between, the record the first call
\* stored for (specifier, containingFile) stays stored, and the second call returns
\* that very record (same identity), whatever the host algorithm would answer then.
C1_IdempotentHit == []HitReturnsStored /\ [][StoredIsKept]_vars

\* a resolved record is stored for a specifier the host algorithm has no memo of
\* and can answer afresh
C1_Witness ==
  \E f \in project.containingFiles, s \in project.specifiers :
    /\ has(cache, s, f)
    /\ get(cache, s, f) # undefined
    /\ s \notin DOMAIN tsModuleCache
    /\ Len(objs) < MaxObjs

\* the cache of a new loader holds no key
NothingStored ==
  \A f \in project.containingFiles, s \in project.specifiers : ~has(cache, s, f)

\* a call that resolves a specifier the host algorithm reports as unresolved returns
\* undefined for it and leaves the key stored with the value undefined
UnresolvedIsStored ==
  \A f \in project.containingFiles, s \in project.specifiers : \A out \in Resolutions(s, f) :
    (~out.tr.hit /\ out.st.objs[out.tr.host].resolvedModule = undefined) =>
      /\ out.ret = undefined
      /\ has(out.st.cache, s, f)
      /\ get(out.st.cache, s, f) = undefined

\* the step is a call resolveModuleNames(moduleNames, f) with s among moduleNames
Resolving(s, f) ==
  \E call \in Calls :
    /\ call.containingFile = f
    /\ \E i \in DOMAIN call.moduleNames : call.moduleNames[i] = s
    /\ \E out \in Outcomes(call) : Becomes(out.st)

\* a key gets stored only by a call that resolves it
StoredOnlyByResolving ==
  \A f \in project.containingFiles, s \in project.specifiers :
    (~has(cache, s, f) /\ has(cache', s, f)) => Resolving(s, f)

\* C2: Miss/negative distinction.  After resolveModuleNames resolves a specifier the
\* host algorithm reports as unresolved, has(specifier, containingFile) is true and
\* get(specifier, containingFile) is undefined; a key is stored only by a call that
\* resolves it, so for a key never resolved has(...) is false.
C2_MissNegativeDistinction ==
  NothingStored /\ []UnresolvedIsStored /\ [][StoredOnlyByResolving]_vars

\* one key is stored as unresolved while another was never resolved
C2_Witness ==
  \E f \in project.containingFiles, s, t \in project.specifiers :
    /\ has(cache, s, f) /\ get(cache, s, f) = undefined
    /\ ~has(cache, t, f) /\ get(cache, t, f) = undefined

\* deleteFromModuleCache(P), for the path P a stored record resolves to, removes the
\* entry and makes mightHaveInvalidatedResolutions(f) true
DeletionInvalidates ==
  \A f \in project.containingFiles, s \in project.specifiers :
    (has(cache, s, f) /\ get(cache, s, f) # undefined) =>
      LET after == deleteFromModuleCache(loaderState, get(cache, s, f).resolvedFileName)
      IN /\ ~has(after.cache, s, f)
         /\ mightHaveInvalidatedResolutions(after, f)

\* mightHaveInvalidatedResolutions(f) turns from true to false only in a call of
\* clearPendingInvalidations
SignalLastsUntilClear ==
  \A f \in project.containingFiles :
    (mightHaveInvalidatedResolutions(loaderState, f)
       /\ ~mightHaveInvalidatedResolutions(loaderState, f)') => ClearPendingInvalidations

\* C3: Deletion invalidation.  If the cache holds an entry for (s, f) whose record
\* resolves to path P, then after deleteFromModuleCache(P) the entry is absent and
\* mightHaveInvalidatedResolutions(f) is true, and it stays true through every later
\* call, resolveModuleNames included, until clearPendingInvalidations is called.
C3_DeletionInvalidation == []DeletionInvalidates /\ [][SignalLastsUntilClear]_vars

\* deleteFromModuleCache removed the entry of (s, f), the signal for f is up, and a
\* later resolveModuleNames call stored (s, f) again; no other hook can have marked f,
\* since no resolution was unresolved or had failed lookups
C3_Witness ==
  \E f \in project.containingFiles, s \in project.specifiers :
    /\ mightHaveInvalidatedResolutions(loaderState, f)
    /\ has(cache, s, f)
    /\ resolutionWithFailedLookup = {}
    /\ \A id \in DOMAIN objs : objs[id].resolvedModule # undefined

\* the paths the file watcher reports in the project
WatchedPaths == project.createdPaths \cup project.deletedPaths

\* the file name of a path: what follows its last slash or backslash
FileNameOf(path) ==
  LET slashes == {i \in DOMAIN path : path[i] \in {"/", "\\"}}
  IN SubSeq(path, IF slashes = {} THEN 1 ELSE (CHOOSE i \in slashes : \A j \in slashes : j <= i) + 1,
            Len(path))

\* the stem of a path: its file name up to the first dot, case-normalized
StemOf(path) ==
  LET name == FileNameOf(getCanonicalFileName(path))
      dots == {i \in DOMAIN name : name[i] = "."}
  IN IF dots = {} THEN name
     ELSE SubSeq(name, 1, (CHOOSE i \in dots : \A j \in dots : i <= j) - 1)

\* text occurs in the sequence of characters in
Occurs(text, in) ==
  \E i \in 0..(Len(in) - Len(text)) : SubSeq(in, i + 1, i + Len(text)) = text

\* deleteUnresolvedResolutionsFromCache(path) removes the entry of (s, f) exactly when
\* it is unresolved and the specifier, as the cache keeps it, contains the stem of
\* path; then f is in the pending-invalidation set
UnresolvedRecheck ==
  \A path \in WatchedPaths :
    LET after == deleteUnresolvedResolutionsFromCache(loaderState, path)
        stem == StemOf(path)
    IN \A f \in project.containingFiles, s \in project.specifiers :
         has(cache, s, f) =>
           LET removed == ~has(after.cache, s, f)
           IN /\ removed <=> /\ get(cache, s, f) = undefined
                              /\ Occurs(stem, getCanonicalFileName(s))
              /\ removed => oneOfResolvedModuleChanged(after.pendingInvalidations, f)
              /\ ~removed => get(after.cache, s, f) = get(cache, s, f)

\* './Foo' and './Bar' against the created file '/p/Foo.ts'
UnresolvedRecheckOfFoo ==
  LET after == deleteUnresolvedResolutionsFromCache(loaderState, PathFoo)
  IN \A f \in project.containingFiles :
       /\ (has(cache, SpecFoo, f) /\ get(cache, SpecFoo, f) = undefined)
            => ~has(after.cache, SpecFoo, f)
       /\ (has(cache, SpecFoo, f) /\ get(cache, SpecFoo, f) # undefined)
            => get(after.cache, SpecFoo, f) = get(cache, SpecFoo, f)
       /\ has(cache, SpecBar, f)
            => (has(after.cache, SpecBar, f)
                  /\ get(after.cache, SpecBar, f) = get(cache, SpecBar, f))

MarkedAndSwept(st, L) ==
  invalidateFailedLocationResolution(deleteUnresolvedResolutionsFromCache(st, L))

\* C5 as claimed: whenever a resolution of (s, f) probed L, marking L pending and
\* running the sweep evicts the entry of (s, f) and raises the signal for f
C5_EveryProbingResolution ==
  \A f \in project.containingFiles, s \in project.specifiers : \A out \in Resolutions(s, f) :
    \A L \in project.createdPaths :
      (~out.tr.hit /\ L \in out.st.objs[out.tr.host].failedLookupLocations) =>
        LET after == MarkedAndSwept(out.st, L)
        IN /\ ~has(after.cache, s, f)
           /\ mightHaveInvalidatedResolutions(after, f)

\* the same for a resolution that produced a resolved module, or whose specifier
\* contains the stem of L
ProbingResolutionEvicted ==
  \A f \in project.containingFiles, s \in project.specifiers : \A out \in Resolutions(s, f) :
    \A L \in project.createdPaths :
      (/\ ~out.tr.hit
       /\ L \in out.st.objs[out.tr.host].failedLookupLocations
       /\ \/ out.ret # undefined
          \/ Occurs(StemOf(L), getCanonicalFileName(s))) =>
        LET after == MarkedAndSwept(out.st, L)
        IN /\ ~has(after.cache, s, f)
           /\ mightHaveInvalidatedResolutions(after, f)

\* the sweep evicts every stored record whose resolution probed a location that is
\* pending, whatever was called since the location was marked
SweepEvicts ==
  InvalidateFailedLocationResolution =>
    \A f \in project.containingFiles, s \in project.specifiers :
      (/\ has(cache, s, f)
       /\ get(cache, s, f) # undefined
       /\ \E L \in objs[get(cache, s, f).id].failedLookupLocations :
            FileSetHas(pendingFailedLocationCheck, L)) =>
        /\ ~has(cache', s, f)
        /\ mightHaveInvalidatedResolutions(loaderState, f)'

\* C5 (amended): Failed-lookup retroactive invalidation.  If the resolution of (s, f)
\* probed location L, then once L is marked pending through
\* deleteUnresolvedResolutionsFromCache(L) and invalidateFailedLocationResolution()
\* is run, the entry of (s, f) is evicted and mightHaveInvalidatedResolutions(f) is
\* true, provided the resolution produced a resolved module or the specifier contains
\* the file-name stem of L.
C5_FailedLookupInvalidation == []ProbingResolutionEvicted /\ [][SweepEvicts]_vars

\* the sweep has marked f and the entry of (s, f) is gone
C5_Witness ==
  \E f \in project.containingFiles, s \in project.specifiers :
    /\ FileSetHas(failedLocationInvalidated, f)
    /\ ~has(cache, s, f)
    /\ pendingFailedLocationCheck = {}

\* the real path a virtual path stands for: '.svelte' in place of '.d.svelte.ts'
RealPathOf(path) == SubSeq(path, 1, Len(path) - Len(VirtualEnding)) \o SvelteEnding

\* the record the host algorithm answered with in a resolution
HostRecord(out) == out.st.objs[out.tr.host].resolvedModule

\* the specifier was resolved afresh and the host answered with a virtual path
HostAnsweredVirtual(out) ==
  /\ ~out.tr.hit
  /\ HostRecord(out) # undefined
  /\ isVirtualSvelteFilePath(HostRecord(out).resolvedFileName)

\* C6: Virtual remap correctness.  When the host algorithm resolves a specifier to a
\* virtual path whose real counterpart exists, resolveModuleNames returns and caches a
\* record whose resolvedFileName is the real path, whose extension is the one of the
\* script kind of the snapshot of the real path, and whose isExternalLibraryImport is
\* that of the host's record.
C6_VirtualRemap ==
  \A f \in project.containingFiles, s \in project.specifiers : \A out \in Resolutions(s, f) :
    (HostAnsweredVirtual(out) /\ RealPathOf(HostRecord(out).resolvedFileName) \in disk) =>
      /\ out.ret # undefined
      /\ out.ret.resolvedFileName = RealPathOf(HostRecord(out).resolvedFileName)
      /\ ~isVirtualSvelteFilePath(out.ret.resolvedFileName)
      /\ out.ret.extension = getExtensionFromScriptKind(out.tr.kind)
      /\ out.ret.isExternalLibraryImport = HostRecord(out).isExternalLibraryImport
      /\ get(out.st.cache, s, f) = out.ret

\* a remapped record is stored: the real path, the extension of a snapshot without
\* script kind and the flag of the host's record
C6_Witness ==
  \E f \in project.containingFiles, s \in project.specifiers :
    /\ has(cache, s, f)
    /\ get(cache, s, f).resolvedFileName = PathFooSvelte
    /\ get(cache, s, f).extension = ".js"
    /\ get(cache, s, f).isExternalLibraryImport
    /\ \E id \in DOMAIN objs :
         /\ objs[id].resolvedModule.resolvedFileName = PathFooVirtual
         /\ objs[id].resolvedModule.isExternalLibraryImport

\* C7 as claimed: no record stored in the cache and no record resolveModuleNames
\* returns has a virtual resolvedFileName
C7_NoVirtualPath ==
  /\ \A key \in DOMAIN cache :
       cache[key] # undefined => ~isVirtualSvelteFilePath(cache[key].resolvedFileName)
  /\ \A f \in project.containingFiles, s \in project.specifiers :
       \A out \in Resolutions(s, f) :
         out.ret # undefined => ~isVirtualSvelteFilePath(out.ret.resolvedFileName)

\* C7 (amended): No-virtual-path.  A record that resolveModuleNames resolves afresh,
\* returns and stores has a virtual resolvedFileName only when the host algorithm
\* resolved to that path and its real counterpart does not exist; the host's record
\* is then returned and stored as it is.
C7_NoVirtualPathOfExistingFile ==
  \A f \in project.containingFiles, s \in project.specifiers : \A out \in Resolutions(s, f) :
    (/\ ~out.tr.hit
     /\ out.ret # undefined
     /\ isVirtualSvelteFilePath(out.ret.resolvedFileName)) =>
      /\ RealPathOf(out.ret.resolvedFileName) \notin disk
      /\ out.ret = HostRecord(out)
      /\ get(out.st.cache, s, f) = out.ret

\* the cache holds a record with a virtual path whose real counterpart does not exist
C7_Witness ==
  \E key \in DOMAIN cache :
    /\ cache[key] # undefined
    /\ isVirtualSvelteFilePath(cache[key].resolvedFileName)
    /\ RealPathOf(cache[key].resolvedFileName) \notin disk

\* C8: Order preservation.  resolveModuleNames(specifiers, f) returns an array as long
\* as specifiers whose i-th element is the resolution outcome of specifiers[i] for f:
\* the stored record for a cache hit, the record stored for (specifiers[i], f) in any
\* case, also when a specifier occurs more than once in the batch.
C8_OrderPreservation ==
  \A call \in Calls : \A out \in Outcomes(call) :
    /\ Len(out.ret) = Len(call.moduleNames)
    /\ \A i \in DOMAIN call.moduleNames :
         /\ out.ret[i] = get(out.st.cache, call.moduleNames[i], call.containingFile)
         /\ has(cache, call.moduleNames[i], call.containingFile) =>
              out.ret[i] = get(cache, call.moduleNames[i], call.containingFile)

\* a batch resolves its first specifier afresh and takes its second from the cache,
\* and the two outcomes differ
C8_Witness ==
  \E call \in Calls : \E out \in Outcomes(call) :
    /\ Len(call.moduleNames) = 2
    /\ ~out.tr[1].hit /\ out.tr[2].hit
    /\ out.ret[1] # out.ret[2]

\* every path the session can ask about
QueriedPaths == project.containingFiles \cup WatchedPaths

\* right after clearPendingInvalidations() no path is reported
ClearResets ==
  \A path \in QueriedPaths :
    ~mightHaveInvalidatedResolutions(clearPendingInvalidations(loaderState), path)

\* the signal of a path is raised only by one of the three invalidation calls, when
\* it removes an entry or marks a file
RaisedOnlyByInvalidation ==
  \A path \in QueriedPaths :
    (~mightHaveInvalidatedResolutions(loaderState, path)
       /\ mightHaveInvalidatedResolutions(loaderState, path)') =>
      /\ \/ DeleteFromModuleCache
         \/ DeleteUnresolvedResolutionsFromCache
         \/ InvalidateFailedLocationResolution
      /\ \/ DOMAIN cache' # DOMAIN cache
         \/ failedLocationInvalidated' # failedLocationInvalidated

\* C9: Reset of the invalidation signal.  Right after clearPendingInvalidations(),
\* mightHaveInvalidatedResolutions(p) is false for every path p, and it stays false
\* through resolveModuleNames and resolveTypeReferenceDirectiveReferences calls until
\* deleteFromModuleCache, deleteUnresolvedResolutionsFromCache or
\* invalidateFailedLocationResolution removes an entry or marks a file.
C9_SignalReset == []ClearResets /\ [][RaisedOnlyByInvalidation]_vars

\* the one key of the project was resolved twice, so its entry was removed in between
\* and its file marked; clearPendingInvalidations() has reset the signal, and it is
\* still down after a resolveModuleNames and a
\* resolveTypeReferenceDirectiveReferences call
C9_Witness ==
  /\ project = ProjectTypes
  /\ Len(objs) = 2
  /\ has(cache, SpecFoo, FileA)
  /\ nextTypeRef > 1
  /\ \A path \in QueriedPaths : ~mightHaveInvalidatedResolutions(loaderState, path)

\* C10: Exactness of delete.  delete(P) removes all and only the cache entries whose
\* value is a resolved record whose case-normalized resolvedFileName equals the
\* case-normalized P, whatever their containing file; every other entry stays as it
\* is, and the pending-invalidation set gains exactly the containing files of the
\* removed entries.
C10_DeleteExactness ==
  \A P \in WatchedPaths :
    LET after == delete(cache, pendingInvalidations, P)
        normalizedP == getCanonicalFileName(P)
        stored == {e \in [f : project.containingFiles, s : project.specifiers] :
                     has(cache, e.s, e.f)}
        resolvingToP ==
          {e \in stored :
             /\ get(cache, e.s, e.f) # undefined
             /\ getCanonicalFileName(get(cache, e.s, e.f).resolvedFileName) = normalizedP}
    IN /\ \A e \in resolvingToP : ~has(after.cache, e.s, e.f)
       /\ \A e \in stored \ resolvingToP :
            /\ has(after.cache, e.s, e.f)
            /\ get(after.cache, e.s, e.f) = get(cache, e.s, e.f)
       /\ DOMAIN after.cache \subseteq DOMAIN cache
       /\ after.pendingInvalidations =
            pendingInvalidations \cup {getCanonicalFileName(e.f) : e \in resolvingToP}

\* on a case-insensitive file system deleteFromModuleCache('/p/foo.ts') removed the
\* entry of one specifier, resolved to '/p/Foo.ts', and marked its file, while the
\* entry of another specifier, resolved to another path, is stored (nothing was
\* unresolved and no sweep has marked a file, so no other call removed an entry)
C10_Witness ==
  \E f \in project.containingFiles, s, t \in project.specifiers :
    /\ ~useCaseSensitiveFileNames
    /\ PathFooLower \in project.deletedPaths
    /\ pendingInvalidations = {getCanonicalFileName(f)}
    /\ failedLocationInvalidated = {}
    /\ ~has(cache, s, f)
    /\ has(cache, t, f)
    /\ get(cache, t, f).resolvedFileName = PathFooIndex
    /\ \E id \in DOMAIN objs : objs[id].resolvedModule.resolvedFileName = PathFoo
    /\ \A id \in DOMAIN objs : objs[id].resolvedModule # undefined

\* every call resolveTypeReferenceDirectiveReferences(typeDirectiveNames, containingFile)
\* the session can make; mode is what the containing source file implies
TypeReferenceCalls ==
  {[typeDirectiveNames |-> names, containingFile |-> f, mode |-> mode]
     : names \in Batches(project.typeDirectives), f \in project.typeReferenceFiles,
       mode \in Modes}

\* the outcome of such a call made in the current state
TypeReferenceOutcome(call) ==
  resolveTypeReferenceDirectiveReferences(
    loaderState, nextTypeRef, call.typeDirectiveNames, call.containingFile, call.mode)

\* the pairs (reference name, mode) of a call
TypeReferencePairs(call) ==
  {<<getTypeReferenceResolutionName(call.typeDirectiveNames[i]), call.mode>>
     : i \in DOMAIN call.typeDirectiveNames}

\* the pair was resolved: the table holds a result for it
TypeReferenceResolved(table, pair) == (pair[1] \o <<"|">> \o pair[2]) \in DOMAIN table

\* the result the table holds for a pair
TypeReferenceOf(table, pair) == table[pair[1] \o <<"|">> \o pair[2]]

\* a request for a resolved pair, from whatever containing file, returns the result in
\* the table and leaves it there; the host is called once for each pair of the call
\* that was not resolved, so not at all when every pair was
TypeReferenceHitReturnsCached ==
  \A call \in TypeReferenceCalls :
    LET out == TypeReferenceOutcome(call)
    IN /\ \A i \in DOMAIN call.typeDirectiveNames :
            LET pair == <<getTypeReferenceResolutionName(call.typeDirectiveNames[i]), call.mode>>
            IN /\ TypeReferenceResolved(out.cache, pair)
               /\ out.ret[i] = TypeReferenceOf(out.cache, pair)
               /\ TypeReferenceResolved(typeReferenceCache, pair) =>
                    out.ret[i] = TypeReferenceOf(typeReferenceCache, pair)
       /\ out.next - nextTypeRef =
            Cardinality({pair \in TypeReferencePairs(call) :
                           ~TypeReferenceResolved(typeReferenceCache, pair)})

\* deleteUnresolvedResolutionsFromCache empties the table; deleteFromModuleCache,
\* invalidateFailedLocationResolution and clearPendingInvalidations leave it as it is
TypeReferenceTableAfterHooks ==
  /\ \A path \in WatchedPaths :
       /\ deleteUnresolvedResolutionsFromCache(loaderState, path).typeReferenceCache = EmptyMap
       /\ deleteFromModuleCache(loaderState, path).typeReferenceCache = typeReferenceCache
  /\ invalidateFailedLocationResolution(loaderState).typeReferenceCache = typeReferenceCache
  /\ clearPendingInvalidations(loaderState).typeReferenceCache = typeReferenceCache

\* a result leaves the table, or is replaced, only in a call of
\* deleteUnresolvedResolutionsFromCache
TypeReferenceKept ==
  \/ \A key \in DOMAIN typeReferenceCache :
       key \in DOMAIN typeReferenceCache' /\ typeReferenceCache'[key] = typeReferenceCache[key]
  \/ DeleteUnresolvedResolutionsFromCache

\* C11: Type-reference cache.  resolveTypeReferenceDirectiveReferences is memoized on
\* the pair (reference name, resolution mode) alone: once a pair has been resolved,
\* every later request for it, from any containing file, returns the same cached
\* result without calling the host again, until deleteUnresolvedResolutionsFromCache
\* is called, which empties the whole table; deleteFromModuleCache,
\* invalidateFailedLocationResolution and clearPendingInvalidations never remove a
\* type-reference entry.
C11_TypeReferenceCache ==
  /\ []TypeReferenceHitReturnsCached
  /\ []TypeReferenceTableAfterHooks
  /\ [][TypeReferenceKept]_vars

\* a pair was resolved for one file, and a request from another file, naming the pair
\* both as a string and as a file reference, gets that result twice without a call
\* of the host
C11_Witness ==
  \E call \in TypeReferenceCalls :
    /\ Len(call.typeDirectiveNames) = 2
    /\ call.typeDirectiveNames[1] # call.typeDirectiveNames[2]
    /\ Cardinality(TypeReferencePairs(call)) = 1
    /\ \A pair \in TypeReferencePairs(call) :
         /\ TypeReferenceResolved(typeReferenceCache, pair)
         /\ TypeReferenceOf(typeReferenceCache, pair).containingFile # call.containingFile
         /\ TypeReferenceOutcome(call).ret =
              <<TypeReferenceOf(typeReferenceCache, pair), TypeReferenceOf(typeReferenceCache, pair)>>
    /\ TypeReferenceOutcome(call).next = nextTypeRef

\* the states of a cache key
KeyState(c, key) ==
  IF key \notin DOMAIN c THEN "Absent"
  ELSE IF c[key] = undefined THEN "ConfirmedUnresolved" ELSE "Resolved"

\* in one call a key stays in its state, leaves Absent or returns to Absent
KeyMoves ==
  \A key \in DOMAIN cache \cup DOMAIN cache' :
    \/ KeyState(cache', key) = KeyState(cache, key)
    \/ KeyState(cache, key) = "Absent"
    \/ KeyState(cache', key) = "Absent"

\* a request for (s, f) is a first resolution: the host algorithm is invoked, and what
\* is returned and stored is the record of the object it answers with, or the record
\* made of it for the real path of a Svelte file
FirstResolution(s, f, out) ==
  /\ ~out.tr.hit
  /\ out.tr.host \in DOMAIN out.st.objs
  /\ \/ out.ret = HostRecord(out)
     \/ /\ HostAnsweredVirtual(out)
        /\ out.ret.id \notin DOMAIN objs
        /\ out.ret.resolvedFileName = RealPathOf(HostRecord(out).resolvedFileName)
  /\ has(out.st.cache, s, f)
  /\ get(out.st.cache, s, f) = out.ret

\* a request for an absent key is a first resolution
AbsentIsResolvedAfresh ==
  \A f \in project.containingFiles, s \in project.specifiers :
    ~has(cache, s, f) => \A out \in Resolutions(s, f) : FirstResolution(s, f, out)

\* the key of (s, f) is removed in this step, by one of the invalidation calls, and the
\* next request for it is a first resolution; the value the key had comes back only
\* as the answer the host gives then
RemovedIsResolvedAfresh ==
  \A f \in project.containingFiles, s \in project.specifiers :
    (has(cache, s, f) /\ ~has(cache', s, f)) =>
      /\ \/ DeleteFromModuleCache
         \/ DeleteUnresolvedResolutionsFromCache
         \/ InvalidateFailedLocationResolution
      /\ \A out \in Resolutions(s, f)' :
           /\ ~out.tr.hit
           /\ get(out.st.cache, s, f) = out.ret
           /\ out.ret = get(cache, s, f) => out.ret = out.st.objs[out.tr.host].resolvedModule

\* C12: Per-key state machine.  Every cache key moves only along
\* Absent -> (Resolved | ConfirmedUnresolved) -> Absent, never directly between
\* Resolved and ConfirmedUnresolved.  After a key has been removed by an invalidation,
\* the next resolveModuleNames request for it behaves like a first resolution: the
\* host algorithm is invoked again and its answer of that moment is stored and
\* returned, whatever the value before the deletion was.
C12_KeyStateMachine ==
  /\ []AbsentIsResolvedAfresh
  /\ [][KeyMoves]_vars
  /\ [][RemovedIsResolvedAfresh]_vars

\* the key of (s, f) was unresolved, was removed, and is now stored with a resolved
\* record: the first object is an unresolved answer given to f, the second carries the
\* record stored for (s, f), and no other key is stored (the unresolved answer was not
\* given for another specifier, whose key would still be stored: no path the watcher
\* reports removes it)
C12_Witness ==
  \E f \in project.containingFiles, s \in project.specifiers :
    /\ DOMAIN cache = {getCanonicalFileName(getKey(s, f))}
    /\ Len(objs) = 2
    /\ objs[1].resolvedModule = undefined
    /\ objs[1].files # 0
    /\ fileSets[objs[1].files] = {f}
    /\ get(cache, s, f) = objs[2].resolvedModule
    /\ get(cache, s, f) # undefined
    /\ \A t \in project.specifiers \ {s}, path \in project.createdPaths :
         ~Occurs(StemOf(path), getCanonicalFileName(t))
    /\ oneOfResolvedModuleChanged(pendingInvalidations, f)

\* the (containing file, specifier) pairs the cache holds
Stored ==
  {e \in [f : project.containingFiles, s : project.specifiers] : has(cache, e.s, e.f)}

\* the failed-lookup locations the resolution that produced a stored record recorded
FailedLookupsOf(record) == objs[record.id].failedLookupLocations

\* the resolution that produced the record probed a location that is pending a
\* failed-location check
ProbedPending(record) ==
  \E location \in FailedLookupsOf(record) : FileSetHas(pendingFailedLocationCheck, location)

\* C13 as claimed: the sweep removes an entry only if the resolution that produced it
\* recorded a failed-lookup location that is pending; every other entry is kept
C13_OnlyProbingEntries ==
  LET after == invalidateFailedLocationResolution(loaderState)
  IN \A e \in Stored :
       ~has(after.cache, e.s, e.f) =>
         /\ get(cache, e.s, e.f) # undefined
         /\ ProbedPending(get(cache, e.s, e.f))

\* C13 (amended): Exactness of failed-lookup invalidation.
\* invalidateFailedLocationResolution() removes a cache entry only if its record
\* resolves to the (case-normalized) file of a tracked resolution with a defined
\* resolved module that recorded a failed-lookup location that is pending a
\* failed-location check; an entry resolving to the file of no such resolution, and an
\* unresolved entry, is kept as it is, while an entry whose own failed-lookup set does
\* not intersect the pending paths is removed when it resolves to the same file as an
\* entry that is invalidated.
C13_OnlyEntriesOfInvalidatedFiles ==
  LET after == invalidateFailedLocationResolution(loaderState)
      invalidatedFiles ==
        {getCanonicalFileName(objs[id].resolvedModule.resolvedFileName)
           : id \in {i \in resolutionWithFailedLookup :
                       /\ objs[i].resolvedModule # undefined
                       /\ \E location \in objs[i].failedLookupLocations :
                            FileSetHas(pendingFailedLocationCheck, location)}}
  IN \A e \in Stored :
       LET record == get(cache, e.s, e.f)
           ofInvalidatedFile ==
             /\ record # undefined
             /\ getCanonicalFileName(record.resolvedFileName) \in invalidatedFiles
       IN /\ ~has(after.cache, e.s, e.f) => ofInvalidatedFile
          /\ ~ofInvalidatedFile => get(after.cache, e.s, e.f) = record
          /\ (ofInvalidatedFile /\ ~ProbedPending(record)) => ~has(after.cache, e.s, e.f)

\* the sweep has marked one file only, the one whose resolution probed a location, and
\* the entries of both files are gone although the other file's resolution, to the
\* same path, probed nothing
C13_Witness ==
  /\ project = ProjectFiles
  /\ Cardinality(failedLocationInvalidated) = 1
  /\ pendingFailedLocationCheck = {}
  /\ Stored = {}
  /\ Cardinality(pendingInvalidations) = 2
  /\ \E id \in DOMAIN objs : objs[id].failedLookupLocations = {}

\* the containing files a tracked object has accumulated
OwningFiles(st, id) == IF st.objs[id].files = 0 THEN {} ELSE st.fileSets[st.objs[id].files]

\* a miss from f that gets an object with failed-lookup locations and a resolved
\* module adds f to the files of the object, next to those it had, and tracks it
SharedRecordAccumulates ==
  \A f \in project.containingFiles, s \in project.specifiers : \A out \in Resolutions(s, f) :
    (/\ ~out.tr.hit
     /\ out.ret # undefined
     /\ out.st.objs[out.ret.id].failedLookupLocations # {}) =>
      /\ out.ret.id \in out.st.resolutionWithFailedLookup
      /\ f \in OwningFiles(out.st, out.ret.id)
      /\ out.ret.id \in DOMAIN objs =>
           OwningFiles(loaderState, out.ret.id) \subseteq OwningFiles(out.st, out.ret.id)

\* the entry that holds the record of a tracked object belongs to one of its files
OwnersAreRecorded ==
  \A e \in Stored :
    (get(cache, e.s, e.f) # undefined /\ get(cache, e.s, e.f).id \in resolutionWithFailedLookup)
      => e.f \in OwningFiles(loaderState, get(cache, e.s, e.f).id)

\* a sweep that invalidates a tracked object removes every entry that holds its record
\* and reports every file it has accumulated
SweepOfSharedRecord ==
  LET after == invalidateFailedLocationResolution(loaderState)
  IN \A id \in invalidatedResolutions(loaderState) :
       /\ \A f \in OwningFiles(loaderState, id) : mightHaveInvalidatedResolutions(after, f)
       /\ \A e \in Stored :
            get(cache, e.s, e.f) = objs[id].resolvedModule => ~has(after.cache, e.s, e.f)

\* C14: Shared failed-lookup record.  When one host result object with failed-lookup
\* locations and a defined resolved module was returned for cache misses from several
\* containing files, the record accumulates all of those files, and a sweep that
\* invalidates the record removes the cache entry of every owning containing file and
\* makes mightHaveInvalidatedResolutions true for every one of them.
C14_SharedRecord == SharedRecordAccumulates /\ OwnersAreRecorded /\ SweepOfSharedRecord

\* one object was returned to two containing files; the sweep has removed both entries
\* and reports both files
C14_Witness ==
  /\ Len(objs) = 1
  /\ objs[1].resolvedModule # undefined
  /\ Cardinality(OwningFiles(loaderState, 1)) = 2
  /\ Stored = {}
  /\ \A f \in OwningFiles(loaderState, 1) : FileSetHas(failedLocationInvalidated, f)
  /\ pendingFailedLocationCheck = {}

\* the tracked records with a defined resolved module and a failed-lookup location
\* that is pending a failed-location check
RecordsToInvalidate ==
  {id \in resolutionWithFailedLookup :
     /\ objs[id].resolvedModule # undefined
     /\ \E location \in objs[id].failedLookupLocations :
          FileSetHas(pendingFailedLocationCheck, location)}

\* the sweep removes the entries resolving to the path of a record to invalidate, marks
\* the files of these records, and changes nothing else but the sets of pending paths
\* and pending invalidations; with no record to invalidate it removes and marks nothing
SweepRule ==
  LET after == invalidateFailedLocationResolution(loaderState)
      paths == {getCanonicalFileName(objs[id].resolvedModule.resolvedFileName)
                  : id \in RecordsToInvalidate}
      removed == {e \in Stored :
                    /\ get(cache, e.s, e.f) # undefined
                    /\ getCanonicalFileName(get(cache, e.s, e.f).resolvedFileName) \in paths}
  IN /\ \A e \in removed : ~has(after.cache, e.s, e.f)
     /\ \A e \in Stored \ removed :
          has(after.cache, e.s, e.f) /\ get(after.cache, e.s, e.f) = get(cache, e.s, e.f)
     /\ DOMAIN after.cache \subseteq DOMAIN cache
     /\ after.failedLocationInvalidated =
          failedLocationInvalidated
            \cup UNION {{getCanonicalFileName(f) : f \in OwningFiles(loaderState, id)}
                          : id \in RecordsToInvalidate}
     /\ after.pendingInvalidations =
          pendingInvalidations \cup {getCanonicalFileName(e.f) : e \in removed}
     /\ after.pendingFailedLocationCheck = {}
     /\ after = [loaderState EXCEPT !.cache = after.cache,
                                    !.failedLocationInvalidated = after.failedLocationInvalidated,
                                    !.pendingInvalidations = after.pendingInvalidations,
                                    !.pendingFailedLocationCheck = {}]
     /\ RecordsToInvalidate = {} =>
          after = [loaderState EXCEPT !.pendingFailedLocationCheck = {}]

\* a sweep right after a sweep changes nothing, and neither does a sweep while no path
\* is pending
SecondSweepChangesNothing ==
  LET after == invalidateFailedLocationResolution(loaderState)
  IN /\ invalidateFailedLocationResolution(after) = after
     /\ pendingFailedLocationCheck = {} => after = loaderState

\* a path becomes pending a failed-location check only in a call of
\* deleteUnresolvedResolutionsFromCache
PendingOnlyByCreation ==
  \/ pendingFailedLocationCheck' \subseteq pendingFailedLocationCheck
  \/ DeleteUnresolvedResolutionsFromCache

\* C15: Sweep rule.  invalidateFailedLocationResolution() acts on a tracked record only
\* when its resolved module is defined and at least one of its failed-lookup locations
\* is pending a failed-location check; for such a record it deletes the cache entries
\* by the record's resolved path and marks every owning containing file as
\* invalidated.  Unresolved records cause no removal and no marking.  The sweep always
\* ends with the pending failed-location set empty, so a second sweep with no
\* deleteUnresolvedResolutionsFromCache call in between changes nothing.
C15_SweepRule ==
  /\ []SweepRule
  /\ []SecondSweepChangesNothing
  /\ [][PendingOnlyByCreation]_vars

\* after a sweep: the entry of one specifier, resolved after probing the created path,
\* is gone and its file is marked, while the unresolved entry of another specifier,
\* whose resolution probed the same path, is still stored
C15_Witness ==
  \E f \in project.containingFiles, s, t \in project.specifiers :
    /\ pendingFailedLocationCheck = {}
    /\ failedLocationInvalidated = {getCanonicalFileName(f)}
    /\ ~has(cache, s, f)
    /\ has(cache, t, f) /\ get(cache, t, f) = undefined
    /\ \E id \in resolutionWithFailedLookup, location \in project.createdPaths :
         /\ objs[id].resolvedModule = undefined
         /\ location \in objs[id].failedLookupLocations
         /\ \E other \in resolutionWithFailedLookup :
              /\ objs[other].resolvedModule # undefined
              /\ location \in objs[other].failedLookupLocations

\* a call of resolveModuleNames leaves every key the cache holds with its value: it
\* writes only under keys that are absent
WritesOnlyAbsentKeys ==
  \A call \in Calls : \A out \in Outcomes(call) :
    /\ \A key \in DOMAIN cache : key \in DOMAIN out.st.cache /\ out.st.cache[key] = cache[key]
    /\ \A i \in DOMAIN call.moduleNames :
         out.tr[i].hit => has(cache, call.moduleNames[i], call.containingFile)
                            \/ \E j \in 1..(i - 1) : ~out.tr[j].hit

\* a key present before and after a call has the same value
PresentKeepsValue ==
  \A key \in DOMAIN cache \cap DOMAIN cache' : cache'[key] = cache[key]

\* C16: Write-once entries.  Once a value (a record or the confirmed-unresolved
\* outcome) has been written under a cache key, the value under that key never changes
\* for as long as the key stays present; resolveModuleNames writes only to keys that
\* are absent, so a present entry is never overwritten, only deleted and re-created.
C16_WriteOnce == []WritesOnlyAbsentKeys /\ [][PresentKeepsValue]_vars

\* one key still holds the unresolved outcome written first: the memo of the host
\* algorithm was cleared afterwards, and a later call resolved another specifier of the
\* same file afresh and wrote its resolved module beside it
C16_Witness ==
  \E f \in project.containingFiles, s, t \in project.specifiers :
    /\ s # t
    /\ has(cache, s, f) /\ get(cache, s, f) = undefined
    /\ has(cache, t, f) /\ get(cache, t, f) # undefined
    /\ s \notin DOMAIN tsModuleCache
    /\ t \in DOMAIN tsModuleCache
    /\ get(cache, t, f) = objs[tsModuleCache[t]].resolvedModule
    /\ f \in OwningFiles(loaderState, 1)
    /\ objs[1].resolvedModule = undefined

\* a call of resolveModuleNames removes no entry, and the keys it adds are those of the
\* specifiers it resolved afresh
ResolvingOnlyCreates ==
  \A call \in Calls : \A out \in Outcomes(call) :
    /\ DOMAIN cache \subseteq DOMAIN out.st.cache
    /\ DOMAIN out.st.cache \ DOMAIN cache =
         {getCanonicalFileName(getKey(call.moduleNames[i], call.containingFile))
            : i \in {j \in DOMAIN call.moduleNames : ~out.tr[j].hit}}

\* the invalidation calls create no entry and change no value;
\* clearPendingInvalidations leaves the cache as it is
HooksOnlyRemove ==
  /\ \A path \in WatchedPaths :
       \A after \in {deleteFromModuleCache(loaderState, path),
                     deleteUnresolvedResolutionsFromCache(loaderState, path),
                     invalidateFailedLocationResolution(loaderState)} :
         \A key \in DOMAIN after.cache : key \in DOMAIN cache /\ after.cache[key] = cache[key]
  /\ clearPendingInvalidations(loaderState).cache = cache

\* an entry is created only in a call of resolveModuleNames and removed only in a call
\* of deleteFromModuleCache, deleteUnresolvedResolutionsFromCache or
\* invalidateFailedLocationResolution
LifecycleFrame ==
  /\ \/ DOMAIN cache' \subseteq DOMAIN cache
     \/ ResolveModuleNames
  /\ \/ DOMAIN cache \subseteq DOMAIN cache'
     \/ DeleteFromModuleCache
     \/ DeleteUnresolvedResolutionsFromCache
     \/ InvalidateFailedLocationResolution
  /\ \/ cache' = cache
     \/ ~(ResolveTypeReferenceDirectiveReferences \/ ClearPendingInvalidations)

\* C17: Lifecycle / frame.  A resolution-cache entry is created only by
\* resolveModuleNames on a miss and removed only by deleteFromModuleCache,
\* deleteUnresolvedResolutionsFromCache or invalidateFailedLocationResolution;
\* resolveModuleNames never removes an entry, and
\* resolveTypeReferenceDirectiveReferences, mightHaveInvalidatedResolutions and
\* clearPendingInvalidations leave the cached entries and their values unchanged.
C17_LifecycleFrame ==
  /\ []ResolvingOnlyCreates
  /\ []HooksOnlyRemove
  /\ [][LifecycleFrame]_vars

\* an unresolved entry is stored; since it was written the host's memo was emptied by
\* a deleteUnresolvedResolutionsFromCache call that did not match it, a type reference
\* was resolved, and a sweep or clearPendingInvalidations emptied the pending paths
C17_Witness ==
  \E f \in project.containingFiles, s \in project.specifiers :
    /\ has(cache, s, f) /\ get(cache, s, f) = undefined
    /\ tsModuleCache = EmptyMap
    /\ typeReferenceCache # EmptyMap
    /\ pendingFailedLocationCheck = {}
    /\ pendingInvalidations = {}

\* the key the cache keeps for (s, f)
KeyOf(s, f) == getCanonicalFileName(getKey(s, f))

\* a request for a key that is present is answered from the cache: the host algorithm
\* is not invoked and nothing of the loader changes, the failed-lookup tracker included
PresentIsNotResolved ==
  \A f \in project.containingFiles, s \in project.specifiers :
    KeyOf(s, f) \in DOMAIN cache =>
      \A out \in Resolutions(s, f) :
        /\ out.tr.hit
        /\ out.tr.host = 0
        /\ out.st = loaderState

\* in one call the host algorithm is invoked once for each key of the batch that is
\* absent, at its first occurrence, and the key is present from then on
HostInvokedOncePerKey ==
  \A call \in Calls : \A out \in Outcomes(call) :
    LET keyAt(i) == KeyOf(call.moduleNames[i], call.containingFile)
        invoked == {i \in DOMAIN call.moduleNames : out.tr[i].host # 0}
    IN /\ \A i \in invoked :
            /\ keyAt(i) \notin DOMAIN cache
            /\ \A j \in 1..(i - 1) : keyAt(j) # keyAt(i)
            /\ keyAt(i) \in DOMAIN out.st.cache
       /\ Cardinality(invoked) =
            Cardinality({keyAt(i) : i \in DOMAIN call.moduleNames} \ DOMAIN cache)
       /\ invoked = {} => out.st = loaderState

\* a key that is present stays present until an invalidation call removes it
PresentUntilRemoved ==
  \/ DOMAIN cache \subseteq DOMAIN cache'
  \/ DeleteFromModuleCache
  \/ DeleteUnresolvedResolutionsFromCache
  \/ InvalidateFailedLocationResolution

\* C18: Cache-hit short-circuit.  While a key is present in the resolution cache, with a
\* resolved record or with the confirmed-unresolved outcome, resolveModuleNames does
\* not invoke the host resolution algorithm for it and does not record failed-lookup
\* provenance for it; so the host algorithm is invoked at most once per key between
\* two removals of that key.
C18_HitShortCircuit ==
  /\ []PresentIsNotResolved
  /\ []HostInvokedOncePerKey
  /\ [][PresentUntilRemoved]_vars

\* on a case-insensitive file system a key is present with the unresolved outcome, the
\* object of that resolution lists one file only, and the host algorithm, asked, could
\* answer with a new object
C18_Witness ==
  \E f \in project.containingFiles, s \in project.specifiers :
    /\ ~useCaseSensitiveFileNames
    /\ KeyOf(s, f) \in DOMAIN cache
    /\ KeyOf(s, f) # getKey(s, f)
    /\ cache[KeyOf(s, f)] = undefined
    /\ Len(objs) = 1
    /\ OwningFiles(loaderState, 1) = {f}
    /\ tsModuleCache = EmptyMap

(***************************************************************************)
(* Cache keys of paths and specifiers that contain the separator.  The     *)
(* loader takes whatever strings the session passes: a specifier is the    *)
(* text of an import, a containing file any path of the file system.       *)
(***************************************************************************)
\* '/p/a.ts:::b.ts'
FileColons == FileA \o CACHE_KEY_SEPARATOR \o <<"b",".","t","s">>
\* 'b.ts:::./Foo'
SpecColons == <<"b",".","t","s">> \o CACHE_KEY_SEPARATOR \o SpecFoo

\* a project with such a file and such a specifier, on a case-sensitive file system
ProjectColons ==
  [containingFiles |-> {FileA, FileColons},
   specifiers |-> {SpecFoo, SpecColons},
   answers |-> {Unresolved({PathFoo}), Resolved(PathFoo, FALSE, {})},
   createdPaths |-> {PathFoo},
   deletedPaths |-> {PathFoo},
   typeDirectives |-> {[isString |-> TRUE, text |-> <<"n","o","d","e">>]},
   typeReferenceFiles |-> {FileA},
   diskPaths |-> {},
   caseSensitive |-> {TRUE}]

\* a loader just created in that project
InitColons ==
  /\ project = ProjectColons
  /\ useCaseSensitiveFileNames \in project.caseSensitive
  /\ cache = EmptyMap
  /\ pendingInvalidations = {}
  /\ objs = <<>>
  /\ fileSets = <<>>
  /\ resolutionWithFailedLookup = {}
  /\ failedLocationInvalidated = {}
  /\ pendingFailedLocationCheck = {}
  /\ tsModuleCache = EmptyMap
  /\ typeReferenceCache = EmptyMap
  /\ nextTypeRef = 1
  /\ fileExistsCache = EmptyMap
  /\ disk \in SUBSET project.diskPaths
  /\ NoDebouncedFunction

SpecColonsInKeys == InitColons /\ [][Next]_vars

\* the (containing file, specifier) pairs of the project
Pairs == [f : project.containingFiles, s : project.specifiers]

\* two pairs with equal containing files and with specifiers that are equal after the
\* virtual-extension normalization
SamePair(p, q) ==
  /\ getCanonicalFileName(p.f) = getCanonicalFileName(q.f)
  /\ ensureRealSvelteFilePath(p.s) = ensureRealSvelteFilePath(q.s)

\* C19: Cache-key isolation.  Two (containingFile, specifier) pairs share a cache entry
\* only when their containing files are equal and their specifiers are equal after
\* virtual-extension normalization; a set on one pair never changes has/get of another
\* pair; and delete and deleteUnresolvedResolutionsFromCache recover from each key
\* exactly the containing file and the specifier it was built from.
C19_KeyIsolation ==
  \A p \in Pairs :
    /\ \A q \in Pairs :
         ~SamePair(p, q) =>
           /\ KeyOf(p.s, p.f) # KeyOf(q.s, q.f)
           /\ \A value \in {undefined} \cup {objs[id].resolvedModule : id \in DOMAIN objs} :
                LET after == set(cache, p.s, p.f, value)
                IN /\ has(after, q.s, q.f) = has(cache, q.s, q.f)
                   /\ get(after, q.s, q.f) = get(cache, q.s, q.f)
    /\ shift(split(KeyOf(p.s, p.f), CACHE_KEY_SEPARATOR)) = getCanonicalFileName(p.f)
    /\ keyContainingFile(KeyOf(p.s, p.f)) = getCanonicalFileName(p.f)
    /\ keyModuleName(KeyOf(p.s, p.f)) = ensureRealSvelteFilePath(p.s)

\* whatever an invalidation call removes, the containing file of the removed entry is
\* reported right after the call
RemovalIsReported ==
  \A path \in WatchedPaths :
    \A after \in {deleteFromModuleCache(loaderState, path),
                  deleteUnresolvedResolutionsFromCache(loaderState, path),
                  invalidateFailedLocationResolution(loaderState)} :
      \A e \in Stored :
        ~has(after.cache, e.s, e.f) => mightHaveInvalidatedResolutions(after, e.f)

\* an entry leaves the cache only in a step after which its containing file is reported
NoSilentRemoval ==
  \A f \in project.containingFiles :
    \/ mightHaveInvalidatedResolutions(loaderState, f)'
    \/ \A s \in project.specifiers : has(cache, s, f) => has(cache', s, f)

\* a file that is reported stays reported until clearPendingInvalidations is called
ReportedUntilClear ==
  \A f \in project.containingFiles :
    \/ ~mightHaveInvalidatedResolutions(loaderState, f)
    \/ mightHaveInvalidatedResolutions(loaderState, f)'
    \/ ClearPendingInvalidations

\* C20: Removal implies signal.  Whenever deleteFromModuleCache,
\* deleteUnresolvedResolutionsFromCache or invalidateFailedLocationResolution removes
\* the cache entry of (s, f), mightHaveInvalidatedResolutions(f) is true right
\* afterwards and remains true until the next clearPendingInvalidations(); no entry
\* leaves the cache without its containing file being reported as invalidated.
C20_RemovalImpliesSignal ==
  /\ []RemovalIsReported
  /\ [][NoSilentRemoval]_vars
  /\ [][ReportedUntilClear]_vars

\* an unresolved entry was removed by deleteUnresolvedResolutionsFromCache and resolved
\* again, once more as unresolved, and its file is still reported: both objects are
\* unresolved answers given to f, one key is stored, and no sweep has marked a file
C20_Witness ==
  \E f \in project.containingFiles, s \in project.specifiers :
    /\ DOMAIN cache = {KeyOf(s, f)}
    /\ cache[KeyOf(s, f)] = undefined
    /\ Len(objs) = 2
    /\ \A id \in DOMAIN objs :
         objs[id].resolvedModule = undefined /\ OwningFiles(loaderState, id) = {f}
    /\ \A t \in project.specifiers \ {s}, path \in project.createdPaths :
         ~Occurs(StemOf(path), getCanonicalFileName(t))
    /\ failedLocationInvalidated = {}
    /\ mightHaveInvalidatedResolutions(loaderState, f)

\* the loader after deleteUnresolvedResolutionsFromCache(L), clearPendingInvalidations()
\* and invalidateFailedLocationResolution(), called in this order
MarkedClearedAndSwept(st, L) ==
  invalidateFailedLocationResolution(
    clearPendingInvalidations(deleteUnresolvedResolutionsFromCache(st, L)))

\* from every state and for every path L: the clear after the hook leaves no path
\* pending a check, and the sweep after the clear leaves the cache as the hook left
\* it, marks no file and raises the signal of no file
SweepAfterClearDoesNothing ==
  \A L \in WatchedPaths :
    LET marked == deleteUnresolvedResolutionsFromCache(loaderState, L)
        swept == MarkedClearedAndSwept(loaderState, L)
    IN /\ FileSetHas(marked.pendingFailedLocationCheck, L)
       /\ clearPendingInvalidations(marked).pendingFailedLocationCheck = {}
       /\ swept.cache = marked.cache
       /\ swept.failedLocationInvalidated = {}
       /\ swept.pendingInvalidations = {}
       /\ \A f \in project.containingFiles : ~mightHaveInvalidatedResolutions(swept, f)

\* a call of clearPendingInvalidations leaves no path pending, and a sweep called in
\* the state it leaves changes neither the cache nor the marked files
ClearLeavesNothingToSweep ==
  ClearPendingInvalidations =>
    /\ pendingFailedLocationCheck' = {}
    /\ invalidateFailedLocationResolution(loaderState)'.cache = cache'
    /\ invalidateFailedLocationResolution(loaderState)'.failedLocationInvalidated = {}

\* C21: Clear discards pending failed-location checks.  clearPendingInvalidations()
\* also empties the set of paths pending a failed-location check, so in the sequence
\* deleteUnresolvedResolutionsFromCache(L); clearPendingInvalidations();
\* invalidateFailedLocationResolution() the sweep removes no cache entry and marks no
\* containing file, even for a tracked resolved record that probed L.
C21_ClearDiscardsChecks ==
  /\ []SweepAfterClearDoesNothing
  /\ [][ClearLeavesNothingToSweep]_vars

\* the entry of a tracked resolved record that probed the one path the watcher reports
\* as created is still stored although the hook ran after the resolution (the memo of
\* the host algorithm is empty): a clear came before any sweep, and nothing is pending
\* or marked
C21_Witness ==
  \E id \in resolutionWithFailedLookup, L \in project.createdPaths :
    /\ project.createdPaths = {L}
    /\ objs[id].resolvedModule # undefined
    /\ L \in objs[id].failedLookupLocations
    /\ \E key \in DOMAIN cache : cache[key] = objs[id].resolvedModule
    /\ tsModuleCache = EmptyMap
    /\ pendingFailedLocationCheck = {}
    /\ failedLocationInvalidated = {}
    /\ pendingInvalidations = {}

(***************************************************************************)
(* Created files whose name has nothing before its first dot.  The file    *)
(* watcher reports every file of the workspace, dot files included.        *)
(***************************************************************************)
\* '/p/.env'
PathDotEnv == <<"/","p","/",".","e","n","v">>
\* '\p\.env'
PathDotEnvBackslashes == <<"\\","p","\\",".","e","n","v">>
\* '/p/'
PathDirectory == <<"/","p","/">>
\* ''
PathEmpty == <<>>

\* two files importing a module beside a dot file, on a case-sensitive file system
ProjectDotFiles ==
  [containingFiles |-> {FileA, FileB},
   specifiers |-> {SpecFoo},
   answers |-> {Unresolved({PathFoo}), Resolved(PathFoo, FALSE, {})},
   createdPaths |-> {PathDotEnv},
   deletedPaths |-> {PathFoo},
   typeDirectives |-> {[isString |-> TRUE, text |-> <<"n","o","d","e">>]},
   typeReferenceFiles |-> {FileA},
   diskPaths |-> {},
   caseSensitive |-> {TRUE}]

\* a loader just created in that project
InitDotFiles ==
  /\ project = ProjectDotFiles
  /\ useCaseSensitiveFileNames \in project.caseSensitive
  /\ cache = EmptyMap
  /\ pendingInvalidations = {}
  /\ objs = <<>>
  /\ fileSets = <<>>
  /\ resolutionWithFailedLookup = {}
  /\ failedLocationInvalidated = {}
  /\ pendingFailedLocationCheck = {}
  /\ tsModuleCache = EmptyMap
  /\ typeReferenceCache = EmptyMap
  /\ nextTypeRef = 1
  /\ fileExistsCache = EmptyMap
  /\ disk \in SUBSET project.diskPaths
  /\ NoDebouncedFunction

SpecDotFiles == InitDotFiles /\ [][Next]_vars

\* changed paths whose last segment has nothing before its first dot
EmptyStemPaths == {PathDotEnv, PathDotEnvBackslashes, PathDirectory, PathEmpty}

\* the stored pairs whose value is the confirmed-unresolved outcome
StoredUnresolved == {e \in Stored : get(cache, e.s, e.f) = undefined}

\* for every such path, deleteUnresolvedResolutionsFromCache(path) removes every
\* unresolved entry, keeps every resolved entry with its record, creates none, and adds
\* exactly the containing files of the removed entries to the pending invalidations
EmptyStemRemovesEveryUnresolved ==
  \A path \in EmptyStemPaths :
    LET after == deleteUnresolvedResolutionsFromCache(loaderState, path)
    IN /\ StemOf(path) = <<>>
       /\ \A e \in StoredUnresolved : ~has(after.cache, e.s, e.f)
       /\ \A e \in Stored \ StoredUnresolved :
            /\ has(after.cache, e.s, e.f)
            /\ get(after.cache, e.s, e.f) = get(cache, e.s, e.f)
       /\ DOMAIN after.cache \subseteq DOMAIN cache
       /\ after.pendingInvalidations =
            pendingInvalidations \cup {getCanonicalFileName(e.f) : e \in StoredUnresolved}

\* a call of deleteUnresolvedResolutionsFromCache in a project whose created paths all
\* have an empty stem leaves no unresolved entry, and the signal of every file that
\* had one is raised
NoUnresolvedLeft ==
  (DeleteUnresolvedResolutionsFromCache /\ project.createdPaths \subseteq EmptyStemPaths) =>
    /\ \A key \in DOMAIN cache' : cache'[key] # undefined
    /\ \A e \in StoredUnresolved : mightHaveInvalidatedResolutions(loaderState, e.f)'

\* C22: Empty-stem case.  When the last path segment of the changed path has an empty
\* stem (it starts with '.', e.g. '/proj/.env', or the path ends in a separator or is
\* empty), deleteUnresolvedResolutionsFromCache(path) removes every confirmed-unresolved
\* entry in the cache, whatever its specifier, and adds all of their containing files
\* to the pending-invalidation set; resolved entries are still kept.
C22_EmptyStem ==
  /\ []EmptyStemRemovesEveryUnresolved
  /\ [][NoUnresolvedLeft]_vars

\* after deleteUnresolvedResolutionsFromCache('/p/.env'): the unresolved entry of './Foo'
\* from one file is gone and that file is pending, while the resolved entry of the
\* other file is still stored
C22_Witness ==
  \E f, g \in project.containingFiles, s \in project.specifiers :
    /\ f # g
    /\ ~includes(s, <<"e","n","v">>)
    /\ pendingFailedLocationCheck = {PathDotEnv}
    /\ tsModuleCache = EmptyMap
    /\ Stored = {[f |-> g, s |-> s]}
    /\ get(cache, s, g) # undefined
    /\ pendingInvalidations = {getCanonicalFileName(f)}
    /\ \E id \in resolutionWithFailedLookup :
         /\ objs[id].resolvedModule = undefined
         /\ OwningFiles(loaderState, id) = {f}

(***************************************************************************)
(* utils.ts: debounceSameArg and debounceThrottle.  The session creates    *)
(* one debounced function and calls it; the event loop runs the callbacks  *)
(* of the timers that are due, oldest first, at the due moment or later.   *)
(***************************************************************************)
\* the largest number of timers pending at once
MaxPending == 2

\* the longest run of fn, in milliseconds
MaxRun == 2

\* the largest number of calls of the debounceThrottle function between two runs of fn
MaxBurst == 3

\* the documents the debounced function is called with
DocA == <<"a">>
DocB == <<"b">>
Args == {DocA, DocB}

\* implementations of shouldCancelPrevious: (newDoc, prevDoc) => newDoc === prevDoc,
\* () => true and () => false
Predicates == {"sameDocument", "always", "never"}

shouldCancelPrevious(newArg, prev) ==
  CASE predicate = "sameDocument" -> newArg = prev
    [] predicate = "always" -> TRUE
    [] OTHER -> FALSE

\* setTimeout(callback, miliseconds), the callback closing over arg
setTimeout(pending, handle, arg) ==
  Append(pending, [handle |-> handle, arg |-> arg, due |-> Now + miliseconds])

\* clearTimeout(handle): nothing happens when no pending timer has the handle
clearTimeout(pending, handle) == SelectSeq(pending, LAMBDA t : t.handle # handle)

\* the handle setTimeout returns: one no pending timer has and `timeout` does not hold
newHandle(pending, latest) ==
  Min({h \in 1..(Len(pending) + 2) :
         h # latest /\ \A i \in DOMAIN pending : pending[i].handle # h})

\* a past moment, d milliseconds later
later(moment, d) ==
  IF moment - d < Now - miliseconds THEN Now - miliseconds ELSE moment - d

\* the pending timers, d milliseconds later
elapsed(pending, d) ==
  [i \in DOMAIN pending |->
     [pending[i] EXCEPT !.due = IF @ - d < Now THEN Now ELSE @ - d]]

\* a millisecond passes
TimePasses ==
  /\ timers' = elapsed(timers, 1)
  /\ lastInvocation' = later(lastInvocation, 1)
  /\ lastCall' = later(lastCall, 1)
  /\ UNCHANGED <<predicate, timeout, prevArg, invocations, burst>>
  /\ UNCHANGED loaderVars

\* no module loader takes part
NoLoader ==
  /\ project = ProjectSpecifiers
  /\ useCaseSensitiveFileNames = TRUE
  /\ cache = EmptyMap
  /\ pendingInvalidations = {}
  /\ objs = <<>>
  /\ fileSets = <<>>
  /\ resolutionWithFailedLookup = {}
  /\ failedLocationInvalidated = {}
  /\ pendingFailedLocationCheck = {}
  /\ tsModuleCache = EmptyMap
  /\ typeReferenceCache = EmptyMap
  /\ nextTypeRef = 1
  /\ fileExistsCache = EmptyMap
  /\ disk = {}

\* debounceSameArg(fn, shouldCancelPrevious, miliseconds): the state of its closure
InitDebounceSameArg ==
  /\ NoLoader
  /\ predicate \in Predicates
  /\ timers = <<>>
  /\ timeout = 0
  /\ prevArg = undefinedArg
  /\ lastInvocation = Now - miliseconds
  /\ lastCall = Now - miliseconds
  /\ invocations = 0
  /\ burst = 0

\* the returned function, called with arg
DebounceSameArgCall ==
  \E arg \in Args :
    LET kept == IF shouldCancelPrevious(arg, prevArg)
                THEN clearTimeout(timers, timeout)
                ELSE timers
    IN /\ Len(kept) < MaxPending
       /\ timers' = setTimeout(kept, newHandle(kept, timeout), arg)
       /\ timeout' = newHandle(kept, timeout)
       /\ prevArg' = arg
       /\ lastCall' = Now
       /\ invocations' = 0
       /\ UNCHANGED <<predicate, lastInvocation, burst>>
       /\ UNCHANGED loaderVars

\* the callback of its timer: fn(arg); prevArg = undefined
DebounceSameArgTimeout ==
  /\ timers # <<>>
  /\ Head(timers).due <= Now
  /\ timers' = Tail(timers)
  /\ prevArg' = undefinedArg
  /\ invocations' = invocations + 1
  /\ UNCHANGED <<predicate, timeout, lastInvocation, lastCall, burst>>
  /\ UNCHANGED loaderVars

NextDebounceSameArg ==
  \/ DebounceSameArgCall
  \/ DebounceSameArgTimeout
  \/ TimePasses

SpecDebounceSameArg == InitDebounceSameArg /\ [][NextDebounceSameArg]_vars

\* the pending timers whose handle is h
Scheduled(pending, h) == {i \in DOMAIN pending : pending[i].handle = h}

\* the handles of the pending timers
Handles(pending) == {pending[i].handle : i \in DOMAIN pending}

\* a call with argument b, following a call with argument a whose invocation is still
\* scheduled, cancels fn(a) exactly when shouldCancelPrevious(b, a) is true
CancelledIffPredicate ==
  DebounceSameArgCall =>
    \A i \in Scheduled(timers, timeout) :
      (timeout \notin Handles(timers')) <=> shouldCancelPrevious(prevArg', timers[i].arg)

\* a call cancels only invocations for which shouldCancelPrevious said so
CancelsOnlyWhatPredicateAllows ==
  DebounceSameArgCall =>
    \A i \in DOMAIN timers :
      (timers[i].handle \notin Handles(timers')) =>
        shouldCancelPrevious(prevArg', timers[i].arg)

\* fn(arg) runs `miliseconds` after the call or later, once: its timer is gone after it
RunsOnceWhenDue ==
  DebounceSameArgTimeout =>
    /\ Head(timers).due <= Now
    /\ Head(timers).handle \notin Handles(timers')
    /\ invocations' = invocations + 1

\* C23: debounceSameArg.  For a call with argument b that follows a call with argument
\* a whose invocation is still scheduled, the scheduled fn(a) is cancelled if and only
\* if shouldCancelPrevious(b, a) returns true; every call's fn(arg) runs once,
\* `miliseconds` after that call, unless a later call cancelled it, and a call can
\* cancel only invocations for which shouldCancelPrevious said so.
C23_CancelIffPredicate ==
  /\ [][CancelledIffPredicate]_vars
  /\ [][CancelsOnlyWhatPredicateAllows]_vars
  /\ [][RunsOnceWhenDue]_vars

(***************************************************************************)
(* debounceThrottle(fn, miliseconds)                                       *)
(***************************************************************************)
\* function maybeCall(): clearTimeout(timeout); timeout = setTimeout(...)
maybeCall(pending, latest) ==
  LET kept == clearTimeout(pending, latest)
  IN [timers |-> setTimeout(kept, newHandle(kept, latest), undefinedArg),
      timeout |-> newHandle(kept, latest)]

\* the test of the timer callback that always lets fn run
invokedTooRecentlyNever(last) == FALSE

\* Date.now() - lastInvocation < miliseconds
invokedTooRecently(last) == Now - last < miliseconds

\* the state of the closure of debounceThrottle
InitDebounceThrottle ==
  /\ NoLoader
  /\ predicate = "none"
  /\ timers = <<>>
  /\ timeout = 0
  /\ prevArg = undefinedArg
  /\ lastInvocation = Now - miliseconds
  /\ lastCall = Now - miliseconds
  /\ invocations = 0
  /\ burst = 0

\* the session calls the returned function, maybeCall
DebounceThrottleCall ==
  LET out == maybeCall(timers, timeout)
  IN /\ Len(out.timers) <= MaxPending
     /\ burst < MaxBurst
     /\ timers' = out.timers
     /\ timeout' = out.timeout
     /\ lastCall' = Now
     /\ invocations' = 0
     /\ burst' = burst + 1
     /\ UNCHANGED <<predicate, prevArg, lastInvocation>>
     /\ UNCHANGED loaderVars

\* The callback of the timer.  Either it sets the timer again, or fn runs: fn takes
\* up to MaxRun milliseconds and may itself call the returned function when it starts.
DebounceThrottleTimeout ==
  /\ timers # <<>>
  /\ Head(timers).due <= Now
  /\ IF invokedTooRecently(lastInvocation)
     THEN LET out == maybeCall(Tail(timers), timeout)
          IN /\ Len(out.timers) <= MaxPending
             /\ timers' = out.timers
             /\ timeout' = out.timeout
             /\ UNCHANGED <<lastInvocation, lastCall, invocations, burst>>
     ELSE \E calls \in BOOLEAN, run \in 0..MaxRun :
            LET out == IF calls
                       THEN maybeCall(Tail(timers), timeout)
                       ELSE [timers |-> Tail(timers), timeout |-> timeout]
            IN /\ Len(out.timers) <= MaxPending
               /\ timers' = elapsed(out.timers, run)
               /\ timeout' = out.timeout
               /\ lastInvocation' = Now
               /\ lastCall' = IF calls THEN later(Now, run) ELSE later(lastCall, run)
               /\ invocations' = IF calls THEN 0 ELSE invocations + 1
               /\ burst' = IF calls THEN 1 ELSE 0
  /\ UNCHANGED <<predicate, prevArg>>
  /\ UNCHANGED loaderVars

NextDebounceThrottle ==
  \/ DebounceThrottleCall
  \/ DebounceThrottleTimeout
  \/ TimePasses

\* the event loop runs a callback that is due, and time passes
SpecDebounceThrottle ==
  /\ InitDebounceThrottle
  /\ [][NextDebounceThrottle]_vars
  /\ WF_vars(DebounceThrottleTimeout)
  /\ WF_vars(TimePasses)

\* a step in which fn ran
FnRan ==
  /\ DebounceThrottleTimeout
  /\ <<lastInvocation, invocations, burst>>' # <<lastInvocation, invocations, burst>>

\* a step in which fn ran and called the returned function
FnCalledBack == FnRan /\ burst' = 1

\* fn runs `miliseconds` or more after the most recent call of the returned function
\* and after the completion of its previous run, and it runs for a burst of calls
RunsAfterTheDelay ==
  FnRan =>
    /\ Now - lastCall >= miliseconds
    /\ Now - lastInvocation >= miliseconds
    /\ burst >= 1
    /\ lastInvocation' = Now

\* at most one timer is pending, and fn has run at most once since the most recent call
OneTimerOneRun ==
  /\ Len(timers) <= 1
  /\ invocations <= 1
  /\ (timers = <<>>) <=> (burst = 0)

\* when the calls stop, fn runs for the burst: no timer stays pending, and fn has run
\* exactly once since the last call
BurstIsServed ==
  \/ []<><<DebounceThrottleCall \/ FnCalledBack>>_vars
  \/ <>[](timers = <<>> /\ burst = 0 /\ (timeout # 0 => invocations = 1))

\* C24: debounceThrottle.  fn is never invoked less than `miliseconds` after the most
\* recent call of the returned function, nor less than `miliseconds` after the
\* completion of its own previous invocation; and after the calls stop, fn is
\* eventually invoked exactly once for the whole burst (at most one timer is pending at
\* any time).
C24_DebounceThrottle ==
  /\ []OneTimerOneRun
  /\ [][RunsAfterTheDelay]_vars
  /\ BurstIsServed

\* fn has just run, once, for a burst that set at least two timers: the delay has
\* passed since the last call, and no timer is pending
C24_Witness ==
  /\ timeout = 2
  /\ timers = <<>>
  /\ burst = 0
  /\ invocations = 1
  /\ lastInvocation = Now
  /\ Now - lastCall >= miliseconds

====
